---- MODULE Spec2Model ----
(***************************************************************************)
(* Verification model of the ev_loop dispatcher kernel                     *)
(* (src/include/ev_loop/ev.hpp): the compile-time topology analysis, the   *)
(* DualQueue mailbox, the SPSC / MPSC inboxes of own-thread receivers, the *)
(* EventLoop operations, the dispatchers and the external emitter handle.  *)
(***************************************************************************)
EXTENDS Integers, Sequences, FiniteSets, TLC

\* ------------------------------------------------------------------------
\* Bounds of the model
\* ------------------------------------------------------------------------

\* Largest receiver tuple enumerated for the compile-time analysis.
MaxTopoItems == 3

\* Event types of the modelled loops.
Events == {"A", "B"}

\* Capacity of every ring (RingBuffer, SPSCQueue, ThreadSafeRingBuffer), scaled
\* down from the default template argument so that a ring can fill.
Capacity == 2

\* Number of emit calls (EventLoop::emit, dispatcher emit, external emit) of a run.
MaxEmits == 3

\* Number of emit calls one on_event body makes.
MaxHandlerEmits == 1

\* Number of SharedEventLoopPtr copies alive at once.
MaxCopies == 2

\* Hybrid::spin_count
SpinCount == 2

\* Number of push / alloc_slot calls made on the RingBuffer exercised alone.
MaxRingOps == 6

\* Number of TaggedEvent objects exercised alone.
MaxEnvelopes == 2

\* Number of envelopes created for a queue whose payloads are counted.
MaxLifeOps == 4

\* Half-width of the windows of event-universe sizes taken around the limits
\* of the 1-, 2- and 4-byte tag types.
TagSpan == 4

\* ------------------------------------------------------------------------
\* Receiver / emitter declarations (the template arguments of EventLoop)
\* ------------------------------------------------------------------------

\* A receiver type: declares `receives`, optionally `emits`, and a thread mode.
Receiver(mode, rcv, em) ==
  [has_receives |-> TRUE, receives |-> rcv, has_emits |-> TRUE, emits |-> em,
   thread_mode |-> mode]

\* An external emitter type: declares `emits` only; get_thread_mode defaults
\* to SameThread for a type without a thread_mode member.
External(em) ==
  [has_receives |-> FALSE, receives |-> {}, has_emits |-> TRUE, emits |-> em,
   thread_mode |-> "SameThread"]

ItemShapes ==
  {Receiver(m, r, e) : m \in {"SameThread", "OwnThread"},
                       r \in (SUBSET Events) \ {{}}, e \in SUBSET Events}
  \cup {External(e) : e \in (SUBSET Events) \ {{}}}

AllTopologies == UNION {[1..n -> ItemShapes] : n \in 1..MaxTopoItems}

get_receives_t(it) == IF it.has_receives THEN it.receives ELSE {}

get_emits_t(it) == IF it.has_emits THEN it.emits ELSE {}

get_thread_mode(it) == it.thread_mode

is_receiver(it) == it.has_receives

is_external_emitter(it) == it.has_emits /\ ~it.has_receives

can_receive(it, e) == e \in get_receives_t(it)

can_emit(it, e) == is_external_emitter(it) /\ e \in get_emits_t(it)

lists_overlap(l1, l2) == \E e \in l1 : e \in l2

RECURSIVE SeqSum(_)
SeqSum(s) == IF s = <<>> THEN 0 ELSE Head(s) + SeqSum(Tail(s))

\* collect_same_thread_events: the receives of all same-thread receivers.
same_thread_events(tp) ==
  UNION {IF is_receiver(tp[i]) /\ get_thread_mode(tp[i]) = "SameThread"
           THEN get_receives_t(tp[i]) ELSE {} : i \in 1..Len(tp)}

emits_to_same_thread(emits, ste) == \E e \in emits : e \in ste

has_remote_producers(tp) ==
  \E i \in 1..Len(tp) :
     /\ get_thread_mode(tp[i]) = "OwnThread"
     /\ emits_to_same_thread(get_emits_t(tp[i]), same_thread_events(tp))

count_ownthread_producers(target, tp) ==
  SeqSum([i \in 1..Len(tp) |->
            IF get_thread_mode(tp[i]) = "OwnThread"
               /\ lists_overlap(get_emits_t(tp[i]), target) THEN 1 ELSE 0])

has_samethread_producer(target, tp) ==
  \E i \in 1..Len(tp) :
     /\ ~is_external_emitter(tp[i])
     /\ get_thread_mode(tp[i]) = "SameThread"
     /\ lists_overlap(get_emits_t(tp[i]), target)

count_external_producers(target, tp) ==
  SeqSum([i \in 1..Len(tp) |->
            IF is_external_emitter(tp[i])
               /\ lists_overlap(get_emits_t(tp[i]), target) THEN 1 ELSE 0])

\* variant that leaves the external producers out of the count
total_producer_count_no_external(target, tp) ==
  (IF has_samethread_producer(target, tp) THEN 1 ELSE 0)
  + count_ownthread_producers(target, tp)

total_producer_count(target, tp) ==
  (IF has_samethread_producer(target, tp) THEN 1 ELSE 0)
  + count_ownthread_producers(target, tp)
  + count_external_producers(target, tp)

producer_count_for(tp, r) == total_producer_count(get_receives_t(tp[r]), tp)

\* wrapper_selector: which wrapper an item of the tuple gets.
wrapper_for(it) ==
  IF is_receiver(it)
    THEN (IF get_thread_mode(it) = "OwnThread" THEN "OwnThreadWrapper"
                                                ELSE "SameThreadWrapper")
    ELSE "ExternalEmitterWrapper"

\* OwnThreadWrapper::queue_type
queue_type(tp, r) ==
  IF wrapper_for(tp[r]) # "OwnThreadWrapper" THEN "none"
  ELSE IF producer_count_for(tp, r) < 2 THEN "SPSCQueue"
       ELSE "ThreadSafeRingBuffer"

\* index-ordered list of the own-thread receivers of event e
\* (the receivers push_to_own_thread_fold pushes to)
own_thread_receivers(tp, e) ==
  SelectSeq([i \in 1..Len(tp) |-> i],
            LAMBDA i : get_thread_mode(tp[i]) = "OwnThread" /\ can_receive(tp[i], e))

count_own_thread_receivers(tp, e) == Len(own_thread_receivers(tp, e))

\* variant of the dispatch table that lists every receiver of e, whatever
\* its thread mode
receivers_any_mode(tp, e) ==
  SelectSeq([i \in 1..Len(tp) |-> i], LAMBDA i : can_receive(tp[i], e))

\* index-ordered list of the same-thread receivers of event e
\* (the receivers fanout_to_same_thread_fold dispatches to)
same_thread_receivers(tp, e) ==
  SelectSeq([i \in 1..Len(tp) |-> i],
            LAMBDA i : get_thread_mode(tp[i]) = "SameThread" /\ can_receive(tp[i], e))

\* same_thread_count_table_ of build_tables_from_receivers
same_thread_count_table(tp, e) == Len(same_thread_receivers(tp, e))

\* single_dispatch_table_ of build_tables_from_receivers: the first
\* same-thread receiver of e, Len(tp)+1 when there is none
single_dispatch_table(tp, e) ==
  IF same_thread_receivers(tp, e) = <<>> THEN Len(tp) + 1
  ELSE Head(same_thread_receivers(tp, e))

\* EventLoop::dispatch_event: the receivers one dequeued envelope of type e
\* is handed to, in order
dispatch_event(tp, e) ==
  IF same_thread_count_table(tp, e) = 1 THEN <<single_dispatch_table(tp, e)>>
  ELSE IF same_thread_count_table(tp, e) > 1 THEN same_thread_receivers(tp, e)
  ELSE <<>>

\* ------------------------------------------------------------------------
\* The ping-pong scenarios of the test suite
\* ------------------------------------------------------------------------

\* PingReceiver stops answering at this Pong value (same-thread scenario)
kPingPongLimit == 10

\* on_event invocations of each receiver expected by the same-thread scenario
kPingPongExpectedCount == 6

\* last Pong value expected by the same-thread scenario
kPingPongLastValue == 11

\* ThreadedPingReceiver stops answering at this Pong value
kPingPongLimitThreaded == 100

\* on_event invocations of each receiver expected by the threaded scenario
kPingPongExpectedCountThreaded == 51

\* ------------------------------------------------------------------------
\* The loops the run-time model is instantiated with
\* ------------------------------------------------------------------------

\* same-thread relay and own-thread receiver emitting to each other
TopoCross ==
  <<Receiver("SameThread", {"A"}, {"B"}), Receiver("OwnThread", {"B"}, {"A"})>>

\* two same-thread receivers of one event fed by an external emitter
TopoFanout ==
  <<Receiver("SameThread", {"A"}, {"A"}), Receiver("SameThread", {"A"}, {}),
    External({"A"})>>

\* an own-thread receiver fed by an external emitter
TopoExternal == <<Receiver("OwnThread", {"A"}, {}), External({"A"})>>

\* a same-thread and an own-thread receiver of one event, fed by the
\* same-thread receiver itself and by an external emitter
TopoMixed ==
  <<Receiver("SameThread", {"A"}, {"A"}), Receiver("OwnThread", {"A"}, {}),
    External({"A"})>>

\* one same-thread receiver fed by the loop thread and by an external emitter
TopoWait == <<Receiver("SameThread", {"A"}, {}), External({"A"})>>

\* two own-thread producers of A, both fed by B, and an own-thread consumer
\* of A
TopoTwoOwnProducers ==
  <<Receiver("OwnThread", {"B"}, {"A"}), Receiver("OwnThread", {"B"}, {"A"}),
    Receiver("OwnThread", {"A"}, {})>>

\* a same-thread and an own-thread producer of A, both fed by B, and an
\* own-thread consumer of A
TopoSameOwnProducers ==
  <<Receiver("SameThread", {"B"}, {"A"}), Receiver("OwnThread", {"B"}, {"A"}),
    Receiver("OwnThread", {"A"}, {})>>

\* PingReceiver (receives Pong = B, emits Ping = A) and PongReceiver
\* (receives Ping, emits Pong), both hosted on the loop thread
TopoPingPong ==
  <<Receiver("SameThread", {"B"}, {"A"}), Receiver("SameThread", {"A"}, {"B"})>>

\* ThreadedPingReceiver and ThreadedPongReceiver, each on its own thread
TopoThreadedPingPong ==
  <<Receiver("OwnThread", {"B"}, {"A"}), Receiver("OwnThread", {"A"}, {"B"})>>

\* an own-thread receiver fed by two external emitters
TopoTwoExternal ==
  <<Receiver("OwnThread", {"A"}, {}), External({"A"}), External({"A"})>>

\* a same-thread receiver fed through the shared side of the mailbox by an
\* own-thread receiver and by an external emitter
TopoTwoRemote ==
  <<Receiver("SameThread", {"A"}, {}), Receiver("OwnThread", {"B"}, {"A"}),
    External({"A"})>>

\* a loop-hosted and a thread-hosted receiver of one event
TopoRestart ==
  <<Receiver("SameThread", {"A"}, {}), Receiver("OwnThread", {"A"}, {})>>

Topologies == {TopoCross, TopoFanout, TopoExternal, TopoMixed}

\* ------------------------------------------------------------------------
\* Envelopes and rings
\* ------------------------------------------------------------------------

\* thread identities: the thread driving the polls, the thread calling
\* start / stop, and thread i of item i (the worker of an own-thread
\* receiver, the user thread holding the handle of an external emitter)
LoopThread == 0

CtrlThread == -1

\* a default-constructed or moved-from TaggedEvent (tag == uninitialized_tag)
NoEvent == [type |-> "none", src |-> -2, seq |-> 0, val |-> 0]

\* TaggedEvent::store of an event of type e with payload value v; src and
\* seq identify the emit call
Envelope(e, t, n, v) == [type |-> e, src |-> t, seq |-> n, val |-> v]

EmptyRing ==
  [buf |-> [k \in 0..(Capacity - 1) |-> NoEvent], head |-> 0, tail |-> 0,
   has_data |-> FALSE, stop |-> FALSE]

\* an inbox (SPSCQueue or ThreadSafeRingBuffer): the ring and current_, the
\* consumer's copy of the element popped last
EmptyInbox ==
  [buf |-> [k \in 0..(Capacity - 1) |-> NoEvent], head |-> 0, tail |-> 0,
   has_data |-> FALSE, stop |-> FALSE, current |-> NoEvent]

\* `tail - head >= Capacity` on std::size_t: the difference wraps when
\* tail < head and is then larger than any capacity
ring_full(q, tail) == tail < q.head \/ tail - q.head >= Capacity

\* RingBuffer::size() >= Capacity
local_full(q) == ring_full(q, q.tail)

\* variant of RingBuffer::push that stores and advances without the size check
ring_push_overwrite(q, ev) ==
  [q EXCEPT !.buf[q.tail % Capacity] = ev, !.tail = q.tail + 1]

\* RingBuffer::push / alloc_slot + store + commit_push: a full ring rejects
ring_push(q, ev) ==
  IF local_full(q) THEN q
  ELSE [q EXCEPT !.buf[q.tail % Capacity] = ev, !.tail = q.tail + 1]

\* DualQueue::drain_remote loop: every front() is pushed to the local ring
\* and popped from the remote queue whether or not the push succeeded
RECURSIVE drain_into(_, _)
drain_into(q, rem) ==
  IF rem = <<>> THEN q ELSE drain_into(ring_push(q, Head(rem)), Tail(rem))

\* a freshly constructed DualQueue; `locked`: the loop thread holds mutex_
\* across steps (inside the wait block of wait_pop_any), `notified`: a
\* cv_.notify_one() has reached the blocked consumer
EmptyMailbox ==
  [local |-> EmptyRing, remote |-> <<>>, has_remote |-> FALSE,
   waiting |-> FALSE, stop |-> FALSE, notified |-> FALSE, locked |-> FALSE]

\* DualQueue::drain_remote
drain_remote(m) ==
  IF ~m.has_remote THEN m
  ELSE [m EXCEPT !.local = drain_into(m.local, m.remote), !.remote = <<>>,
                 !.has_remote = FALSE]

\* DualQueue::push_remote_event, the critical section: lock, push, unlock
push_remote_event(m, ev) == [m EXCEPT !.remote = Append(m.remote, ev)]

\* variant of the end of push_remote_event that never notifies
set_has_remote_quiet(m, parked) == [m EXCEPT !.has_remote = TRUE]

\* DualQueue::push_remote_event after the critical section: has_remote_ =
\* true, and cv_.notify_one() when waiting_ is set (`parked`: the consumer
\* is blocked in cv_.wait; a notification without a blocked thread is lost)
set_has_remote(m, parked) ==
  [m EXCEPT !.has_remote = TRUE, !.notified = @ \/ (m.waiting /\ parked)]

\* variant of DualQueue::stop that sets stop_ without notifying
mailbox_stop_silent(m, parked) == [m EXCEPT !.stop = TRUE]

\* DualQueue::stop: stop_ = true under the mutex, then cv_.notify_one()
mailbox_stop(m, parked) == [m EXCEPT !.stop = TRUE, !.notified = @ \/ parked]

\* DualQueue::push_local_event
push_local_event(m, ev) == [m EXCEPT !.local = ring_push(m.local, ev)]

\* ------------------------------------------------------------------------
\* State
\* ------------------------------------------------------------------------

VARIABLES
  topo,       \* the receiver tuple the loop is instantiated with
  analysed,   \* the compile-time analysis of topo has been evaluated
  pcount,     \* OwnThreadWrapper::producer_count of every item
  qkind,      \* OwnThreadWrapper::queue_type of every item
  running,    \* EventLoop::running_
  mq,         \* EventLoop::queue_ (the DualQueue mailbox)
  inbox,      \* OwnThreadWrapper::queue_ of every item
  wrun,       \* OwnThreadWrapper::running_ of every item
  nthreads,   \* number of live std::thread objects of every item
  th,         \* position and locals of every thread
  stopper,    \* position of the thread executing EventLoop::stop
  strong,     \* use count of the shared_ptr control block owning the loop
  copies,     \* number of SharedEventLoopPtr objects alive
  life,       \* "alive", "destroying" (in ~EventLoop) or "destroyed"
  ub,         \* the process has hit undefined behaviour and is gone
  emitted,    \* history: completed emit calls per event type
  nextSeq,    \* history: emit calls started per thread
  received,   \* history: on_event invocations of every receiver, in order
  filled,     \* history: some ring has held Capacity envelopes
  starts,     \* history: start() calls since construction / the last stop(), up to 2
  stopReturned, \* history: stop() has returned and start() was not called since
  polled,     \* history: "null" when the last poll found nothing and nothing was enqueued since
  extResult,  \* history: last return value of every external handle's emit
  localTouch, \* history: threads other than the loop thread that accessed the local ring, with the entry point
  drv,        \* the polling strategy object driving the loop thread
  ncopies,    \* history: copy constructions of event payloads
  rb,         \* a RingBuffer exercised on its own, with the log of its calls
  env         \* TaggedEvent objects exercised on their own

vars ==
  <<topo, analysed, pcount, qkind, running, mq, inbox, wrun, nthreads, th,
    stopper, strong, copies, life, ub, emitted, nextSeq, received, filled,
    starts, stopReturned, polled, extResult, localTouch, drv, ncopies, rb,
    env>>

Items == 1..Len(topo)

Threads == {CtrlThread, LoopThread} \cup Items

IsOwn(i) == wrapper_for(topo[i]) = "OwnThreadWrapper"

IsExt(i) == is_external_emitter(topo[i])

\* locals of a thread that is not inside any call
ThreadAt(pc) ==
  [pc |-> pc, etype |-> "none", slot |-> -1, cur |-> NoEvent, rcvs |-> <<>>,
   em |-> NoEvent, targets |-> <<>>, rtail |-> 0, ret |-> "idle", hemits |-> 0,
   stack |-> <<>>]

\* ------------------------------------------------------------------------
\* TaggedEvent: the tag type and the envelope objects
\* ------------------------------------------------------------------------

\* a std::size_t / std::uint32_t value as two 16-bit halves, so that values up
\* to 2^32 - 1 keep their width
Wide(hi, lo) == [hi |-> hi, lo |-> lo]

wide_less(a, b) == a.hi < b.hi \/ (a.hi = b.hi /\ a.lo < b.lo)

\* std::numeric_limits<T>::max() of the unsigned type of `bytes` bytes
numeric_limits_max(bytes) ==
  IF bytes = 1 THEN Wide(0, 2^8 - 1)
  ELSE IF bytes = 2 THEN Wide(0, 2^16 - 1)
  ELSE Wide(2^16 - 1, 2^16 - 1)

\* the static_assert of tag_type_selector<N>
tag_type_valid(n) == wide_less(n, numeric_limits_max(4))

\* variant of tag_type_selector that admits N equal to the maximum
tag_type_selector_inclusive(n) ==
  IF ~wide_less(numeric_limits_max(1), n) THEN 1
  ELSE IF ~wide_less(numeric_limits_max(2), n) THEN 2
  ELSE 4

\* tag_type_selector<N>::type, as its size in bytes
tag_type_selector(n) ==
  IF wide_less(n, numeric_limits_max(1)) THEN 1
  ELSE IF wide_less(n, numeric_limits_max(2)) THEN 2
  ELSE 4

\* TaggedEvent::uninitialized_tag for a universe of n event types
uninitialized_tag(n) == numeric_limits_max(tag_type_selector(n))

\* sizeof...(Events) of TaggedEvent<TrackedString, int>
EventUniverse == Wide(0, 2)

EnvIds == 1..MaxEnvelopes

\* storage that holds no payload object
NoPayload == [alive |-> FALSE, type |-> -1, val |-> 0]

\* memory in which no TaggedEvent object lives
NoObject == [exists |-> FALSE, tag |-> Wide(0, 0), payload |-> NoPayload]

\* TaggedEvent() = default: tag = uninitialized_tag, storage raw
DefaultEnvelope(n) ==
  [exists |-> TRUE, tag |-> uninitialized_tag(n), payload |-> NoPayload]

\* no TaggedEvent object exists; `n` is sizeof...(Events), `bytes` the size
\* of tag_type (0: the template is not instantiated), `op` the last
\* operation and `log` the payload constructions / destructions it made
NoEnvelopes(n) ==
  [n |-> n, bytes |-> 0, obj |-> [i \in EnvIds |-> NoObject], op |-> "none",
   dst |-> 0, src |-> 0, log |-> <<>>]

\* a default-constructed RingBuffer no call has been made on: `slot` is
\* the index alloc_slot returned and commit_push has not yet published (-1:
\* none), `op` / `ret` the last call and its result, `n` the number of push / alloc
\* calls, `pushed` / `popped` the values stored and the values try_pop
\* returned, in order
NoRingCalls ==
  [q |-> EmptyRing, slot |-> -1, op |-> "none", ret |-> "none", n |-> 0,
   pushed |-> <<>>, popped |-> <<>>]

\* no strategy object exists: Hybrid::empty_spins is 0, no run() /
\* run_while() is on the stack of the loop thread, and neither Wait::poll
\* nor Hybrid::poll has been called (last)
NoStrategy == [empty_spins |-> 0, run |-> "none", last |-> "none"]

\* state of a freshly constructed loop of tuple tp held by one SharedEventLoopPtr
InitLoopButEnvelopes ==
  /\ running = FALSE
  /\ mq = EmptyMailbox
  /\ inbox = [i \in Items |-> EmptyInbox]
  /\ wrun = [i \in Items |-> FALSE]
  /\ nthreads = [i \in Items |-> 0]
  /\ th = [t \in Threads |->
             IF t \in Items /\ ~IsExt(t) THEN ThreadAt("none") ELSE ThreadAt("idle")]
  /\ stopper = [pc |-> "idle", idx |-> 0, by |-> CtrlThread, dtor |-> FALSE]
  /\ strong = 1
  /\ copies = 1
  /\ life = "alive"
  /\ ub = FALSE
  /\ emitted = [e \in Events |-> 0]
  /\ nextSeq = [t \in Threads |-> 0]
  /\ received = [i \in Items |-> <<>>]
  /\ filled = FALSE
  /\ starts = 0
  /\ stopReturned = FALSE
  /\ polled = "none"
  /\ extResult = [i \in Items |-> "none"]
  /\ localTouch = {}
  /\ drv = NoStrategy
  /\ ncopies = 0
  /\ rb = NoRingCalls

InitLoop == InitLoopButEnvelopes /\ env = NoEnvelopes(EventUniverse)

Init ==
  /\ topo \in Topologies
  /\ analysed = TRUE
  /\ pcount = [i \in Items |-> IF IsOwn(i) THEN producer_count_for(topo, i) ELSE 0]
  /\ qkind = [i \in Items |-> queue_type(topo, i)]
  /\ InitLoop

InitTopo ==
  /\ topo \in AllTopologies
  /\ analysed = FALSE
  /\ pcount = [i \in Items |-> 0]
  /\ qkind = [i \in Items |-> "none"]
  /\ InitLoop

loopVars ==
  <<running, mq, inbox, wrun, nthreads, th, stopper, strong, copies, life, ub,
    emitted, nextSeq, received, filled, starts, stopReturned, polled,
    extResult, localTouch, drv, ncopies, rb, env>>

\* Instantiating EventLoop<Receivers...> evaluates producer_count / queue_type
\* of every OwnThreadWrapper.
Instantiate ==
  /\ ~analysed
  /\ analysed' = TRUE
  /\ pcount' = [i \in Items |-> IF IsOwn(i) THEN producer_count_for(topo, i) ELSE 0]
  /\ qkind' = [i \in Items |-> queue_type(topo, i)]
  /\ UNCHANGED <<topo, loopVars>>

NextTopo == Instantiate

SpecTopo == InitTopo /\ [][NextTopo]_vars

\* ------------------------------------------------------------------------
\* Emitting: EventLoop::queue_event and the pushes to own-thread inboxes
\* ------------------------------------------------------------------------

EmitCount ==
  nextSeq[CtrlThread] + nextSeq[LoopThread] + SeqSum([i \in Items |-> nextSeq[i]])

\* thread locals after the current target of an emit has been handled:
\* the next target, or the return from queue_event
AfterTarget(thr) ==
  IF Tail(thr.targets) = <<>>
    THEN [thr EXCEPT !.pc = thr.ret, !.em = NoEvent, !.targets = <<>>]
    ELSE [thr EXCEPT !.pc = "push", !.targets = Tail(thr.targets)]

\* thread locals once the mailbox part of queue_event is over: the pushes to
\* the own-thread receivers of the event follow (push_to_own_thread), or
\* queue_event returns
AfterMailbox(thr) ==
  IF thr.targets = <<>>
    THEN [thr EXCEPT !.pc = thr.ret, !.em = NoEvent]
    ELSE [thr EXCEPT !.pc = "push"]

\* thread locals after the first step of queue_event<Remote>: a remote
\* mailbox push has left its critical section and still has to set has_remote_
queue_event_thread(base, ev, ret, remote) ==
  LET thr == [base EXCEPT !.em = ev, !.ret = ret,
                          !.targets = own_thread_receivers(topo, ev.type)]
  IN IF remote /\ ev.type \in same_thread_events(topo)
       THEN [thr EXCEPT !.pc = "flag"]
       ELSE AfterMailbox(thr)

\* mailbox after the first step of queue_event<Remote>
queue_event_mailbox(m, ev, remote) ==
  IF ev.type \in same_thread_events(topo)
    THEN (IF remote THEN push_remote_event(m, ev) ELSE push_local_event(m, ev))
    ELSE m

\* copies of the payload made by the mailbox push of queue_event: the
\* event is passed as an lvalue, and copied into the envelope, when own-thread
\* receivers are still to be served; push_local_event stores nothing when no
\* slot is free
mailbox_copy(m, e, remote) ==
  IF /\ e \in same_thread_events(topo)
     /\ own_thread_receivers(topo, e) # <<>>
     /\ (remote \/ ~local_full(m.local))
    THEN 1 ELSE 0

\* variant of the fan-out folds that hands a copy to every consumer
fanout_copy_always(rest) == 1

\* copies of the payload made for one consumer of a fan-out that is
\* followed by the consumers `rest`: the last one is handed the event by
\* std::move / std::forward, the others an lvalue
fanout_copy(rest) == IF rest = <<>> THEN 0 ELSE 1

\* EventLoop::queue_event<Remote>(event) called by thread t, up to the end
\* of the local push or of the critical section of the remote push
queue_event(t, e, v, remote, ret, via, base) ==
  LET ev == Envelope(e, t, nextSeq[t], v)
      toLocal == e \in same_thread_events(topo) /\ ~remote
      toRemote == e \in same_thread_events(topo) /\ remote
  IN /\ toRemote => ~mq.locked
     /\ mq' = queue_event_mailbox(mq, ev, remote)
     /\ th' = [th EXCEPT ![t] = queue_event_thread(base, ev, ret, remote)]
     /\ nextSeq' = [nextSeq EXCEPT ![t] = @ + 1]
     /\ emitted' = IF ~toRemote /\ own_thread_receivers(topo, e) = <<>>
                     THEN [emitted EXCEPT ![e] = @ + 1] ELSE emitted
     /\ filled' = (filled \/ local_full(queue_event_mailbox(mq, ev, remote).local))
     /\ polled' = IF e \in same_thread_events(topo) THEN "none" ELSE polled
     /\ ncopies' = ncopies + mailbox_copy(mq, e, remote)
     /\ localTouch' = IF toLocal /\ t # LoopThread
                        THEN localTouch \cup {<<t, via>>} ELSE localTouch

\* DualQueue::push_remote_event after the critical section: has_remote_ is
\* set (the consumer is notified only when it is parked)
SetHasRemote(t) ==
  /\ ~ub
  /\ th[t].pc = "flag"
  /\ mq' = set_has_remote(mq, th[LoopThread].pc = "parked")
  /\ th' = [th EXCEPT ![t] = AfterMailbox(th[t])]
  /\ emitted' = IF th[t].targets = <<>>
                  THEN [emitted EXCEPT ![th[t].em.type] = @ + 1] ELSE emitted
  /\ polled' = "none"
  /\ UNCHANGED <<env, rb, ncopies, drv, topo, analysed, pcount, qkind, starts, running, inbox, wrun,
                 nthreads, stopper, strong, copies, life, ub, nextSeq, received,
                 filled, stopReturned, extResult, localTouch>>

\* variant of the check of SPSCQueue::push that never sees a full queue
spsc_never_full(q) == FALSE

\* SPSCQueue::push: `tail - head >= Capacity` on the two loaded indices
spsc_full(q) == ring_full(q, q.tail)

\* SPSCQueue::push, first half: load head and tail, reject when full
PushLoad(t) ==
  /\ ~ub
  /\ th[t].pc = "push"
  /\ qkind[Head(th[t].targets)] = "SPSCQueue"
  /\ LET r == Head(th[t].targets)
         full == spsc_full(inbox[r])
     IN /\ th' = [th EXCEPT ![t] =
                    IF full THEN AfterTarget(th[t])
                    ELSE [th[t] EXCEPT !.pc = "store", !.rtail = inbox[r].tail]]
        /\ filled' = (filled \/ full)
        /\ ncopies' = ncopies + fanout_copy(Tail(th[t].targets))
        /\ emitted' = IF full /\ Tail(th[t].targets) = <<>>
                        THEN [emitted EXCEPT ![th[t].em.type] = @ + 1] ELSE emitted
  /\ UNCHANGED <<env, rb, drv, topo, analysed, pcount, qkind, starts, running, mq, inbox, wrun, nthreads,
                 stopper, strong, copies, life, ub, nextSeq, received,
                 stopReturned, polled, extResult, localTouch>>

\* variant of the store for a queue whose pop hands out a pointer to the
\* ring slot instead of moving the element into current_: a push into the
\* slot popped last writes the element the consumer holds
spsc_store_into_popped(q, tail, ev) ==
  [q EXCEPT !.buf[tail % Capacity] = ev, !.tail = tail + 1,
            !.current = IF q.head > 0 /\ tail % Capacity = (q.head - 1) % Capacity
                          THEN ev ELSE @]

\* `buffer_[tail & mask_] = std::move(item); tail_.store(tail + 1)`
spsc_store(q, tail, ev) ==
  [q EXCEPT !.buf[tail % Capacity] = ev, !.tail = tail + 1]

\* SPSCQueue::push, second half: write the slot, publish tail + 1
PushStore(t) ==
  /\ ~ub
  /\ th[t].pc = "store"
  /\ LET r == Head(th[t].targets)
         q == spsc_store(inbox[r], th[t].rtail, th[t].em)
     IN /\ inbox' = [inbox EXCEPT ![r] = q]
        /\ filled' = (filled \/ ring_full(q, q.tail))
  /\ th' = [th EXCEPT ![t] = AfterTarget(th[t])]
  /\ emitted' = IF Tail(th[t].targets) = <<>>
                  THEN [emitted EXCEPT ![th[t].em.type] = @ + 1] ELSE emitted
  /\ UNCHANGED <<env, rb, ncopies, drv, topo, analysed, pcount, qkind, starts, running, mq, wrun, nthreads,
                 stopper, strong, copies, life, ub, nextSeq, received,
                 stopReturned, polled, extResult, localTouch>>

\* variant of the store of ThreadSafeRingBuffer::push that leaves has_data_
\* as it is
mpsc_push_unflagged(q, ev) ==
  [q EXCEPT !.buf[q.tail % Capacity] = ev, !.tail = @ + 1]

\* the store of ThreadSafeRingBuffer::push under the mutex: write the slot,
\* advance tail_, set has_data_
mpsc_push(q, ev) ==
  [q EXCEPT !.buf[q.tail % Capacity] = ev, !.tail = @ + 1, !.has_data = TRUE]

\* ThreadSafeRingBuffer::push (one critical section)
PushLocked(t) ==
  /\ ~ub
  /\ th[t].pc = "push"
  /\ qkind[Head(th[t].targets)] = "ThreadSafeRingBuffer"
  /\ LET r == Head(th[t].targets)
         full == ring_full(inbox[r], inbox[r].tail)
         q == mpsc_push(inbox[r], th[t].em)
     IN /\ inbox' = IF full THEN inbox ELSE [inbox EXCEPT ![r] = q]
        /\ filled' = (filled \/ full \/ ring_full(q, q.tail))
        /\ ncopies' = ncopies + fanout_copy(Tail(th[t].targets))
  /\ th' = [th EXCEPT ![t] = AfterTarget(th[t])]
  /\ emitted' = IF Tail(th[t].targets) = <<>>
                  THEN [emitted EXCEPT ![th[t].em.type] = @ + 1] ELSE emitted
  /\ UNCHANGED <<env, rb, drv, topo, analysed, pcount, qkind, starts, running, mq, wrun, nthreads,
                 stopper, strong, copies, life, ub, nextSeq, received,
                 stopReturned, polled, extResult, localTouch>>

\* ------------------------------------------------------------------------
\* The loop thread: EventLoop::emit, Spin / Yield poll, same-thread dispatch
\* ------------------------------------------------------------------------

LoopUsable == ~ub /\ life = "alive" /\ copies > 0

\* EventLoop::emit(event) called on the loop thread
LoopEmit(e) ==
  /\ LoopUsable
  /\ th[LoopThread].pc = "idle"
  /\ drv.run = "none"
  /\ EmitCount < MaxEmits
  /\ queue_event(LoopThread, e, 0, FALSE, "idle", "EventLoop::emit", th[LoopThread])
  /\ UNCHANGED <<env, rb, drv, topo, analysed, pcount, qkind, starts, running, inbox, wrun, nthreads,
                 stopper, strong, copies, life, ub, received, stopReturned,
                 extResult>>

\* variant of DualQueue::try_pop that drains the remote queue before it
\* looks at the local ring
try_pop_drain_first(m) == drain_remote(m)

\* the mailbox after the look-up part of DualQueue::try_pop: the local ring
\* as it is when it holds an envelope, else after drain_remote
try_pop_drain(m) ==
  IF m.local.head # m.local.tail THEN m ELSE drain_remote(m)

\* the mailbox after the look-up part of EventLoop::try_get_event
\* (DualQueue::try_pop or try_pop_local)
try_get_event_drain(m) ==
  IF has_remote_producers(topo) THEN try_pop_drain(m) ELSE m

\* the loop thread after a strategy has popped the head of the local ring of
\* mailbox m: it is about to call dispatch_event on that slot
popped(m) ==
  LET slot == m.local.head % Capacity
  IN [th[LoopThread] EXCEPT !.pc = "dispatch", !.slot = slot,
                            !.etype = m.local.buf[slot].type,
                            !.rcvs = dispatch_event(topo, m.local.buf[slot].type)]

\* Spin::poll up to the call of dispatch_event: try_get_event and the
\* receivers the popped envelope goes to.  Yield::poll is the same transition
\* followed by std::this_thread::yield() when nothing was found.
spin_poll ==
  LET m == try_get_event_drain(mq)
  IN /\ IF m.local.head = m.local.tail
          THEN /\ mq' = m
               /\ polled' = "null"
               /\ UNCHANGED th
          ELSE /\ mq' = [m EXCEPT !.local.head = @ + 1]
               /\ polled' = "none"
               /\ th' = [th EXCEPT ![LoopThread] = popped(m)]
     /\ filled' = (filled \/ local_full(m.local))
     /\ UNCHANGED drv

\* DualQueue::wait_pop_any up to the point where it takes the mutex to
\* wait: pop the local ring, else drain the remote queue if has_remote_ is
\* set and pop again
wait_pop_any_begin(m0) ==
  LET m == IF m0.local.head # m0.local.tail THEN m0 ELSE drain_remote(m0)
  IN /\ IF m.local.head = m.local.tail
          THEN /\ mq' = m
               /\ th' = [th EXCEPT ![LoopThread].pc = "wait"]
          ELSE /\ mq' = [m EXCEPT !.local.head = @ + 1]
               /\ th' = [th EXCEPT ![LoopThread] = popped(m)]
     /\ filled' = (filled \/ local_full(m.local))
     /\ polled' = "none"

\* Wait::poll up to the call of dispatch_event or to the wait
wait_poll ==
  /\ wait_pop_any_begin(mq)
  /\ drv' = [drv EXCEPT !.last = "Wait"]

\* variant that falls back only once the counter exceeds spin_count
hybrid_falls_back_late(n) == n > SpinCount

\* the empty poll that makes Hybrid::poll fall back to wait_pop_any, given
\* the value of empty_spins after the increment
hybrid_falls_back(n) == ~(n < SpinCount)

\* Hybrid::poll: try_get_event; an event is dispatched and empty_spins
\* reset; otherwise empty_spins is incremented and the poll returns false
\* or, at the end of the spin budget, resets empty_spins and goes on with
\* wait_pop_any
hybrid_poll ==
  LET m == try_get_event_drain(mq)
  IN IF m.local.head # m.local.tail
       THEN /\ mq' = [m EXCEPT !.local.head = @ + 1]
            /\ th' = [th EXCEPT ![LoopThread] = popped(m)]
            /\ drv' = [drv EXCEPT !.empty_spins = 0, !.last = "Hybrid"]
            /\ filled' = (filled \/ local_full(m.local))
            /\ polled' = "none"
       ELSE IF hybrid_falls_back(drv.empty_spins + 1)
              THEN /\ drv' = [drv EXCEPT !.empty_spins = 0, !.last = "Hybrid"]
                   /\ wait_pop_any_begin(m)
              ELSE /\ drv' = [drv EXCEPT !.empty_spins = @ + 1, !.last = "Hybrid"]
                   /\ mq' = m
                   /\ filled' = (filled \/ local_full(m.local))
                   /\ polled' = "none"
                   /\ UNCHANGED th

\* a poll called directly by the user on the loop thread
SpinPoll ==
  /\ LoopUsable
  /\ th[LoopThread].pc = "idle"
  /\ drv.run = "none"
  /\ spin_poll
  /\ UNCHANGED <<env, rb, ncopies, topo, analysed, pcount, qkind, starts, running, inbox, wrun, nthreads,
                 stopper, strong, copies, life, ub, emitted, nextSeq, received,
                 stopReturned, extResult, localTouch>>

WaitPoll ==
  /\ LoopUsable
  /\ th[LoopThread].pc = "idle"
  /\ drv.run = "none"
  /\ wait_poll
  /\ UNCHANGED <<env, rb, ncopies, topo, analysed, pcount, qkind, starts, running, inbox, wrun, nthreads,
                 stopper, strong, copies, life, ub, emitted, nextSeq, received,
                 stopReturned, extResult, localTouch>>

HybridPoll ==
  /\ LoopUsable
  /\ th[LoopThread].pc = "idle"
  /\ drv.run = "none"
  /\ hybrid_poll
  /\ UNCHANGED <<env, rb, ncopies, topo, analysed, pcount, qkind, starts, running, inbox, wrun, nthreads,
                 stopper, strong, copies, life, ub, emitted, nextSeq, received,
                 stopReturned, extResult, localTouch>>

\* variant of the end of the wait block that leaves waiting_ set
wait_block_exit_stale(m) == [m EXCEPT !.notified = FALSE, !.locked = FALSE]

\* `waiting_.store(false)` after cv_.wait has returned; the mutex is
\* released at the end of the block
wait_block_exit(m) ==
  [m EXCEPT !.waiting = FALSE, !.notified = FALSE, !.locked = FALSE]

\* the end of wait_pop_any once the predicate of cv_.wait holds, the mutex
\* being held: waiting_ = false; nullptr when stopped with an empty remote
\* queue; otherwise the remote queue is drained and the local ring popped
wait_pop_any_end ==
  LET m0 == wait_block_exit(mq)
      m == [m0 EXCEPT !.local = drain_into(m0.local, m0.remote), !.remote = <<>>,
                      !.has_remote = FALSE]
  IN IF mq.stop /\ mq.remote = <<>>
       THEN /\ mq' = m0
            /\ th' = [th EXCEPT ![LoopThread] = ThreadAt("idle")]
            /\ UNCHANGED filled
       ELSE /\ filled' = (filled \/ local_full(m.local))
            /\ IF m.local.head = m.local.tail
                 THEN /\ mq' = m
                      /\ th' = [th EXCEPT ![LoopThread] = ThreadAt("idle")]
                 ELSE /\ mq' = [m EXCEPT !.local.head = @ + 1]
                      /\ th' = [th EXCEPT ![LoopThread] = popped(m)]

\* the predicate of cv_.wait in wait_pop_any
wait_predicate == mq.remote # <<>> \/ mq.stop

\* wait_pop_any takes the mutex, sets waiting_ and evaluates the predicate:
\* it goes on with the mutex held, or blocks in cv_.wait (which releases
\* the mutex)
WaitLock ==
  /\ ~ub
  /\ th[LoopThread].pc = "wait"
  /\ ~mq.locked
  /\ IF wait_predicate
       THEN /\ mq' = [mq EXCEPT !.waiting = TRUE, !.locked = TRUE]
            /\ th' = [th EXCEPT ![LoopThread].pc = "woken"]
       ELSE /\ mq' = [mq EXCEPT !.waiting = TRUE, !.notified = FALSE]
            /\ th' = [th EXCEPT ![LoopThread].pc = "parked"]
  /\ UNCHANGED filled
  /\ UNCHANGED <<env, rb, ncopies, drv, topo, analysed, pcount, qkind, starts, running, inbox, wrun, nthreads,
                 stopper, strong, copies, life, ub, emitted, nextSeq, received,
                 stopReturned, polled, extResult, localTouch>>

\* a notified consumer returns from cv_.wait with the mutex held and
\* evaluates the predicate again
WaitWake ==
  /\ ~ub
  /\ th[LoopThread].pc = "parked"
  /\ mq.notified
  /\ ~mq.locked
  /\ IF wait_predicate
       THEN /\ mq' = [mq EXCEPT !.notified = FALSE, !.locked = TRUE]
            /\ th' = [th EXCEPT ![LoopThread].pc = "woken"]
       ELSE /\ mq' = [mq EXCEPT !.notified = FALSE]
            /\ UNCHANGED th
  /\ UNCHANGED <<env, rb, ncopies, drv, topo, analysed, pcount, qkind, starts, running, inbox, wrun, nthreads,
                 stopper, strong, copies, life, ub, emitted, nextSeq, received, filled,
                 stopReturned, polled, extResult, localTouch>>

\* cv_.wait has returned with the predicate true and the mutex held:
\* waiting_ = false and the rest of wait_pop_any
WaitFinish ==
  /\ ~ub
  /\ th[LoopThread].pc = "woken"
  /\ wait_pop_any_end
  /\ UNCHANGED <<env, rb, ncopies, drv, topo, analysed, pcount, qkind, starts, running, inbox, wrun, nthreads,
                 stopper, strong, copies, life, ub, emitted, nextSeq, received,
                 stopReturned, polled, extResult, localTouch>>

\* run() / run_while(pred) of a strategy is entered on the loop thread
RunEnter(s) ==
  /\ LoopUsable
  /\ th[LoopThread].pc = "idle"
  /\ drv.run = "none"
  /\ drv' = [drv EXCEPT !.run = s]
  /\ UNCHANGED <<env, rb, ncopies, topo, analysed, pcount, qkind, starts, running, mq, inbox, wrun, nthreads,
                 th, stopper, strong, copies, life, ub, emitted, nextSeq, received,
                 filled, stopReturned, polled, extResult, localTouch>>

\* `while (event_loop.is_running() && pred())` holds and poll() is called
RunPoll ==
  /\ LoopUsable
  /\ th[LoopThread].pc = "idle"
  /\ drv.run # "none"
  /\ running
  /\ CASE drv.run = "Spin" -> spin_poll
       [] drv.run = "Wait" -> wait_poll
       [] drv.run = "Hybrid" -> hybrid_poll
  /\ UNCHANGED <<env, rb, ncopies, topo, analysed, pcount, qkind, starts, running, inbox, wrun, nthreads,
                 stopper, strong, copies, life, ub, emitted, nextSeq, received,
                 stopReturned, extResult, localTouch>>

\* the loop condition fails and run() / run_while returns: is_running() is
\* false, or the predicate of run_while is (byPred)
RunExit(byPred) ==
  /\ ~ub
  /\ th[LoopThread].pc = "idle"
  /\ drv.run # "none"
  /\ byPred \/ ~running
  /\ drv' = [drv EXCEPT !.run = "none"]
  /\ UNCHANGED <<env, rb, ncopies, topo, analysed, pcount, qkind, starts, running, mq, inbox, wrun, nthreads,
                 th, stopper, strong, copies, life, ub, emitted, nextSeq, received,
                 filled, stopReturned, polled, extResult, localTouch>>

\* SameThreadWrapper::dispatch: on_event of the next receiver of the fan-out
\* is invoked with the envelope the popped slot holds now
Deliver ==
  /\ ~ub
  /\ th[LoopThread].pc = "dispatch"
  /\ LET thr == th[LoopThread]
         r == Head(thr.rcvs)
         payload == mq.local.buf[thr.slot]
     IN /\ received' = [received EXCEPT ![r] =
                          Append(@, [type |-> thr.etype, src |-> payload.src,
                                     seq |-> payload.seq, val |-> payload.val])]
        /\ th' = [th EXCEPT ![LoopThread] =
                    [thr EXCEPT !.pc = "handler", !.rcvs = Tail(thr.rcvs),
                                !.cur = [payload EXCEPT !.type = thr.etype],
                                !.stack = <<r>> \o thr.stack, !.hemits = 0]]
        /\ ncopies' = ncopies + fanout_copy(Tail(thr.rcvs))
  /\ UNCHANGED <<env, rb, drv, topo, analysed, pcount, qkind, starts, running, mq, inbox, wrun, nthreads,
                 stopper, strong, copies, life, ub, emitted, nextSeq, filled,
                 stopReturned, polled, extResult, localTouch>>

\* variant of dispatcher.emit that hands the event to the first same-thread
\* receiver of its type on the caller's stack instead of enqueueing it
HandlerEmitNested(t, e) ==
  /\ ~ub
  /\ th[t].pc = "handler"
  /\ e \in get_emits_t(topo[Head(th[t].stack)])
  /\ th[t].hemits < MaxHandlerEmits
  /\ EmitCount < MaxEmits
  /\ same_thread_receivers(topo, e) # <<>>
  /\ received' = [received EXCEPT ![Head(same_thread_receivers(topo, e))] =
                     Append(@, Envelope(e, t, nextSeq[t], 0))]
  /\ th' = [th EXCEPT ![t] =
              [@ EXCEPT !.stack = <<Head(same_thread_receivers(topo, e))>> \o @,
                        !.hemits = MaxHandlerEmits]]
  /\ nextSeq' = [nextSeq EXCEPT ![t] = @ + 1]
  /\ emitted' = [emitted EXCEPT ![e] = @ + 1]
  /\ UNCHANGED <<env, rb, ncopies, drv, topo, analysed, pcount, qkind, starts, running, mq, inbox, wrun,
                 nthreads, stopper, strong, copies, life, ub, filled,
                 stopReturned, polled, extResult, localTouch>>

\* dispatcher.emit(event) inside on_event: SameThreadDispatcher::emit calls
\* queue_local, OwnThreadDispatcher::emit calls queue_remote
HandlerEmit(t, e) ==
  /\ ~ub
  /\ th[t].pc = "handler"
  /\ e \in get_emits_t(topo[Head(th[t].stack)])
  /\ th[t].hemits < MaxHandlerEmits
  /\ EmitCount < MaxEmits
  /\ queue_event(t, e, 0, IsOwn(Head(th[t].stack)), "handler",
                 IF IsOwn(Head(th[t].stack)) THEN "OwnThreadDispatcher::emit"
                                             ELSE "SameThreadDispatcher::emit",
                 [th[t] EXCEPT !.hemits = @ + 1])
  /\ UNCHANGED <<env, rb, drv, topo, analysed, pcount, qkind, starts, running, inbox, wrun, nthreads,
                 stopper, strong, copies, life, ub, received, stopReturned,
                 extResult>>

\* on_event returns: to the fan-out / the poll on the loop thread, to
\* run_loop on a worker
HandlerReturn(t) ==
  /\ ~ub
  /\ th[t].pc = "handler"
  /\ th' = [th EXCEPT ![t] =
              IF t = LoopThread
                THEN (IF th[t].rcvs = <<>>
                        THEN ThreadAt("idle")
                        ELSE [th[t] EXCEPT !.pc = "dispatch", !.stack = Tail(@), !.hemits = 0])
                ELSE ThreadAt("top")]
  /\ UNCHANGED <<env, rb, ncopies, drv, topo, analysed, pcount, qkind, starts, running, mq, inbox, wrun, nthreads,
                 stopper, strong, copies, life, ub, emitted, nextSeq, received,
                 filled, stopReturned, polled, extResult, localTouch>>

\* ------------------------------------------------------------------------
\* The ping-pong receivers
\* ------------------------------------------------------------------------

\* the limit the ping receiver of the instantiated loop compares with
PingPongLimit ==
  IF topo = TopoThreadedPingPong THEN kPingPongLimitThreaded ELSE kPingPongLimit

\* variant of the payload of an answer: the value received plus two
reply_value_skip(v) == v + 2

\* `event.value + 1`: the payload of the answer to an event of value v
reply_value(v) == v + 1

\* variant of the test of the ping receiver that stops one round early
ping_stops_early(v) == v + 1 < PingPongLimit

\* `if (event.value < kPingPongLimit)`: the ping receiver answers a Pong
ping_continues(v) == v < PingPongLimit

\* the on_event running on thread t has still to emit its answer: every
\* Ping is answered, a Pong is answered while its value is below the limit
AnswerDue(t) ==
  /\ th[t].pc = "handler"
  /\ th[t].hemits = 0
  /\ (th[t].cur.type = "B" => ping_continues(th[t].cur.val))

\* loop.emit(PingEvent{0}) on the loop thread, once, after start()
PingPongSeed ==
  /\ LoopUsable
  /\ running
  /\ th[LoopThread].pc = "idle"
  /\ drv.run = "none"
  /\ EmitCount = 0
  /\ queue_event(LoopThread, "A", 0, FALSE, "idle", "EventLoop::emit", th[LoopThread])
  /\ UNCHANGED <<env, rb, drv, topo, analysed, pcount, qkind, starts, running, inbox, wrun, nthreads,
                 stopper, strong, copies, life, ub, received, stopReturned,
                 extResult>>

\* on_event of a ping-pong receiver emits its answer: PongReceiver emits
\* Pong{value + 1}, PingReceiver emits Ping{value + 1}
PingPongEmit(t) ==
  /\ ~ub
  /\ AnswerDue(t)
  /\ queue_event(t, IF th[t].cur.type = "A" THEN "B" ELSE "A",
                 reply_value(th[t].cur.val), IsOwn(Head(th[t].stack)), "handler",
                 IF IsOwn(Head(th[t].stack)) THEN "OwnThreadDispatcher::emit"
                                             ELSE "SameThreadDispatcher::emit",
                 [th[t] EXCEPT !.hemits = 1])
  /\ UNCHANGED <<env, rb, drv, topo, analysed, pcount, qkind, starts, running, inbox, wrun, nthreads,
                 stopper, strong, copies, life, ub, received, stopReturned,
                 extResult>>

\* on_event of a ping-pong receiver returns, its answer emitted if one was due
PingPongReturn(t) ==
  /\ ~AnswerDue(t)
  /\ HandlerReturn(t)

\* ------------------------------------------------------------------------
\* Worker threads: OwnThreadWrapper::run_loop
\* ------------------------------------------------------------------------

\* variant of run_loop that never looks at running_
run_loop_unchecked(w) == TRUE

\* the condition of `while (running_.load())` in run_loop
run_loop_continues(w) == wrun[w]

\* `while (running_.load())`: leave the loop when the wrapper was stopped,
\* otherwise enter queue_.pop_spin()
WorkerCheck(w) ==
  /\ ~ub
  /\ IsOwn(w)
  /\ th[w].pc = "top"
  /\ th' = [th EXCEPT ![w] = ThreadAt(IF run_loop_continues(w) THEN "spin" ELSE "exited")]
  /\ UNCHANGED <<env, rb, ncopies, drv, topo, analysed, pcount, qkind, starts, running, mq, inbox, wrun, nthreads,
                 stopper, strong, copies, life, ub, emitted, nextSeq, received,
                 filled, stopReturned, polled, extResult, localTouch>>

\* variant of pop_spin that hands nothing out once stop_ is set
pop_ready_until_stopped(w) ==
  /\ ~inbox[w].stop
  /\ IF qkind[w] = "SPSCQueue" THEN inbox[w].head # inbox[w].tail ELSE inbox[w].has_data

\* the spin loop of pop_spin sees something to pop
pop_ready(w) ==
  IF qkind[w] = "SPSCQueue" THEN inbox[w].head # inbox[w].tail ELSE inbox[w].has_data

\* variant of the spin loop of pop_spin that never loads stop_
spin_ignores_stop(q) == FALSE

\* `if (stop_.load()) return nullptr` inside the spin loop of pop_spin
spin_sees_stop(q) == q.stop

\* pop_spin sees the stop flag while the queue looks empty and returns nullptr
WorkerSpinStop(w) ==
  /\ ~ub
  /\ IsOwn(w)
  /\ th[w].pc = "spin"
  /\ ~pop_ready(w)
  /\ spin_sees_stop(inbox[w])
  /\ th' = [th EXCEPT ![w] = ThreadAt("top")]
  /\ UNCHANGED <<env, rb, ncopies, drv, topo, analysed, pcount, qkind, starts, running, mq, inbox, wrun, nthreads,
                 stopper, strong, copies, life, ub, emitted, nextSeq, received,
                 filled, stopReturned, polled, extResult, localTouch>>

\* variant of the end of ThreadSafeRingBuffer::pop_spin that never clears
\* has_data_
has_data_kept(q) == TRUE

\* `if (head_ == tail_) has_data_.store(false)` after `head_++`, under the
\* mutex: the flag stays set while something is left
has_data_after_pop(q) == q.head + 1 # q.tail

\* pop_spin moves the head slot out into current_ and run_loop hands it to on_event
\* (fast_dispatch by the tag of the envelope); a slot no push has written
\* holds no event, reading it is undefined
WorkerPop(w) ==
  /\ ~ub
  /\ IsOwn(w)
  /\ th[w].pc = "spin"
  /\ pop_ready(w)
  /\ LET q == inbox[w]
         ev == q.buf[q.head % Capacity]
         empty == qkind[w] = "ThreadSafeRingBuffer" /\ q.head = q.tail
     IN IF empty
          THEN /\ th' = [th EXCEPT ![w] = ThreadAt("top")]
               /\ UNCHANGED <<inbox, received, ub>>
          ELSE /\ inbox' = [inbox EXCEPT ![w].buf[q.head % Capacity] = NoEvent,
                                         ![w].head = q.head + 1,
                                         ![w].current = ev,
                                         ![w].has_data = (qkind[w] = "ThreadSafeRingBuffer"
                                                          /\ has_data_after_pop(q))]
               /\ ub' = (ev = NoEvent)
               /\ received' = IF ev = NoEvent THEN received
                              ELSE [received EXCEPT ![w] = Append(@, ev)]
               /\ th' = [th EXCEPT ![w] =
                           [ThreadAt("handler") EXCEPT !.cur = ev, !.stack = <<w>>]]
  /\ UNCHANGED <<env, rb, ncopies, drv, topo, analysed, pcount, qkind, starts, running, mq, wrun, nthreads,
                 stopper, strong, copies, life, emitted, nextSeq, filled,
                 stopReturned, polled, extResult, localTouch>>

\* ------------------------------------------------------------------------
\* start and stop
\* ------------------------------------------------------------------------

CtrlFree == LoopUsable /\ stopper.pc = "idle" /\ th[CtrlThread].pc = "idle"

\* variant without the running_.exchange(true) guard: every start() spawns
wrapper_start_unguarded(i) == IsOwn(i)

\* OwnThreadWrapper::start: spawn unless running_ was already set
wrapper_start_spawns(i) == IsOwn(i) /\ ~wrun[i]

\* EventLoop::start: running_ = true, then start() of every wrapper
Start ==
  /\ CtrlFree
  /\ running' = TRUE
  /\ wrun' = [i \in Items |-> IF IsOwn(i) THEN TRUE ELSE wrun[i]]
  /\ nthreads' = [i \in Items |-> IF wrapper_start_spawns(i) THEN nthreads[i] + 1
                                  ELSE nthreads[i]]
  /\ th' = [t \in Threads |->
              IF t \in Items /\ wrapper_start_spawns(t) THEN ThreadAt("top") ELSE th[t]]
  \* assigning to a std::thread that is still joinable terminates the process
  /\ ub' = \E i \in Items : wrapper_start_spawns(i) /\ th[i].pc # "none"
  /\ stopReturned' = FALSE
  /\ starts' = IF starts < 2 THEN starts + 1 ELSE starts
  /\ UNCHANGED <<env, rb, ncopies, drv, topo, analysed, pcount, qkind, mq, inbox, stopper, strong, copies,
                 life, emitted, nextSeq, received, filled, polled, extResult,
                 localTouch>>

\* variant without the running_.exchange(false) guard: stop() signals and
\* joins every own-thread wrapper, running or not
NextToStopUnguarded(from) ==
  IF \E i \in from..Len(topo) : IsOwn(i)
    THEN CHOOSE i \in from..Len(topo) :
           IsOwn(i) /\ \A j \in from..(i - 1) : ~IsOwn(j)
    ELSE 0

\* the first wrapper at or after index `from` whose stop() passes the
\* running_.exchange(false) guard; 0 when there is none
NextToStop(from) ==
  IF \E i \in from..Len(topo) : IsOwn(i) /\ wrun[i]
    THEN CHOOSE i \in from..Len(topo) :
           /\ IsOwn(i) /\ wrun[i]
           /\ \A j \in from..(i - 1) : ~(IsOwn(j) /\ wrun[j])
    ELSE 0

\* SPSCQueue::stop / ThreadSafeRingBuffer::stop: stop_ = true (no thread
\* waits on cv_ of an inbox: run_loop only spins)
queue_stop(q) == [q EXCEPT !.stop = TRUE]

\* stop_all from wrapper index `from` on: the wrappers that are not running
\* return at once; the first running one is flagged (running_ = false,
\* queue_.stop()) and joined; without one EventLoop::stop returns
stop_all(from, by, dtor) ==
  LET i == NextToStop(from) IN
  IF i = 0
    THEN /\ stopper' = [pc |-> "idle", idx |-> 0, by |-> CtrlThread, dtor |-> FALSE]
         /\ stopReturned' = TRUE
         /\ life' = IF dtor THEN "destroyed" ELSE life
         /\ UNCHANGED <<wrun, inbox>>
    ELSE /\ stopper' = [pc |-> "join", idx |-> i, by |-> by, dtor |-> dtor]
         /\ wrun' = [wrun EXCEPT ![i] = FALSE]
         /\ inbox' = [inbox EXCEPT ![i] = queue_stop(@)]
         /\ life' = IF dtor THEN "destroying" ELSE life
         /\ UNCHANGED stopReturned

\* EventLoop::stop up to the first join: running_ = false, queue_.stop(),
\* stop_all
stop_begin(by, dtor) ==
  /\ ~mq.locked
  /\ running' = FALSE
  /\ mq' = mailbox_stop(mq, th[LoopThread].pc = "parked")
  /\ starts' = 0
  /\ stop_all(1, by, dtor)

\* EventLoop::stop called by the controlling thread
StopBegin ==
  /\ CtrlFree
  /\ stop_begin(CtrlThread, FALSE)
  /\ UNCHANGED <<env, rb, ncopies, drv, topo, analysed, pcount, qkind, nthreads, th, strong, copies, ub,
                 emitted, nextSeq, received, filled, polled, extResult, localTouch>>

\* thread_.join() returns once the worker has left run_loop; stop_all goes
\* on with the next wrapper
StopJoin ==
  /\ ~ub
  /\ stopper.pc = "join"
  /\ th[stopper.idx].pc = "exited"
  /\ th' = [th EXCEPT ![stopper.idx] = ThreadAt("none")]
  /\ nthreads' = [nthreads EXCEPT ![stopper.idx] = @ - 1]
  /\ stop_all(stopper.idx + 1, stopper.by, stopper.dtor)
  /\ UNCHANGED <<env, rb, ncopies, drv, topo, analysed, pcount, qkind, starts, running, mq, strong, copies, ub,
                 emitted, nextSeq, received, filled, polled, extResult, localTouch>>

\* ------------------------------------------------------------------------
\* External emitter handles: TypedExternalEmitter
\* ------------------------------------------------------------------------

\* thread t is inside ~EventLoop (it released the last strong reference)
InDestructor(t) == stopper.pc # "idle" /\ stopper.by = t

\* TypedExternalEmitter::is_valid: !loop_.expired()
is_valid == strong > 0

\* variant of TypedExternalEmitter::emit that uses the loop without holding
\* a strong reference for the duration of the call
ExtEmitUnlocked(x, e) ==
  /\ ~ub
  /\ IsExt(x)
  /\ th[x].pc = "idle"
  /\ ~InDestructor(x)
  /\ e \in get_emits_t(topo[x])
  /\ EmitCount < MaxEmits
  /\ strong > 0
  /\ queue_event(x, e, 0, TRUE, "idle", "TypedExternalEmitter::emit", th[x])
  /\ UNCHANGED <<env, rb, drv, topo, analysed, pcount, qkind, starts, running, inbox, wrun, nthreads,
                 stopper, strong, copies, life, ub, received, stopReturned, extResult>>

\* TypedExternalEmitter::emit while the loop is owned: loop_.lock() takes a
\* strong reference, then queue_remote
ExtEmit(x, e) ==
  /\ ~ub
  /\ IsExt(x)
  /\ th[x].pc = "idle"
  /\ ~InDestructor(x)
  /\ e \in get_emits_t(topo[x])
  /\ EmitCount < MaxEmits
  /\ strong > 0
  /\ strong' = strong + 1
  /\ queue_event(x, e, 0, TRUE, "release", "TypedExternalEmitter::emit", th[x])
  /\ UNCHANGED <<env, rb, drv, topo, analysed, pcount, qkind, starts, running, inbox, wrun, nthreads,
                 stopper, copies, life, ub, received, stopReturned, extResult>>

\* the locked pointer goes out of scope and emit returns true
ExtReturn(x) ==
  /\ ~ub
  /\ IsExt(x)
  /\ th[x].pc = "release"
  /\ strong' = strong - 1
  /\ extResult' = [extResult EXCEPT ![x] = "true"]
  /\ th' = [th EXCEPT ![x] = ThreadAt("idle")]
  /\ IF strong = 1
       THEN stop_begin(x, TRUE)
       ELSE UNCHANGED <<running, mq, wrun, inbox, stopper, starts, stopReturned, life>>
  /\ UNCHANGED <<env, rb, ncopies, drv, topo, analysed, pcount, qkind, nthreads, copies, ub, emitted,
                 nextSeq, received, filled, polled, localTouch>>

\* EventLoop::emit(event) called on the controlling thread, not the thread
\* that polls.  An event for a same-thread receiver is written to the local
\* ring without synchronisation with the polling thread: unless the caller
\* orders the two, that is a data race and anything can follow.
OffThreadEmit(e) ==
  /\ CtrlFree
  /\ EmitCount < MaxEmits
  /\ queue_event(CtrlThread, e, 0, FALSE, "idle", "EventLoop::emit", th[CtrlThread])
  /\ ub' \in (IF e \in same_thread_events(topo) THEN {FALSE, TRUE} ELSE {FALSE})
  /\ UNCHANGED <<env, rb, drv, topo, analysed, pcount, qkind, starts, running, inbox, wrun, nthreads,
                 stopper, strong, copies, life, received, stopReturned, extResult>>

\* TypedExternalEmitter::emit after the last strong reference is gone:
\* loop_.lock() is empty and emit returns false
ExtEmitExpired(x) ==
  /\ ~ub
  /\ IsExt(x)
  /\ th[x].pc = "idle"
  /\ ~InDestructor(x)
  /\ strong = 0
  /\ extResult' = [extResult EXCEPT ![x] = "false"]
  /\ UNCHANGED <<env, rb, ncopies, drv, topo, analysed, pcount, qkind, starts, running, mq, inbox, wrun,
                 nthreads, th, stopper, strong, copies, life, ub, emitted, nextSeq,
                 received, filled, stopReturned, polled, localTouch>>

\* ------------------------------------------------------------------------
\* SharedEventLoopPtr: shared ownership of the loop
\* ------------------------------------------------------------------------

\* copy construction of a SharedEventLoopPtr
CopyPtr ==
  /\ LoopUsable
  /\ copies < MaxCopies
  /\ copies' = copies + 1
  /\ strong' = strong + 1
  /\ UNCHANGED <<env, rb, ncopies, drv, topo, analysed, pcount, qkind, starts, running, mq, inbox, wrun,
                 nthreads, th, stopper, life, ub, emitted, nextSeq, received,
                 filled, stopReturned, polled, extResult, localTouch>>

\* ~SharedEventLoopPtr on the controlling thread; the last owner runs
\* ~EventLoop, which calls stop().  The last copy is not dropped while the
\* loop thread is inside a call on the loop.
DropPtr ==
  /\ CtrlFree
  /\ copies > 1 \/ th[LoopThread].pc = "idle"
  /\ copies' = copies - 1
  /\ strong' = strong - 1
  /\ IF strong = 1
       THEN stop_begin(CtrlThread, TRUE)
       ELSE UNCHANGED <<running, mq, wrun, inbox, stopper, starts, stopReturned, life>>
  /\ UNCHANGED <<env, rb, ncopies, drv, topo, analysed, pcount, qkind, nthreads, th, ub, emitted, nextSeq,
                 received, filled, polled, extResult, localTouch>>

Next ==
  \/ Start
  \/ StopBegin
  \/ StopJoin
  \/ \E e \in Events : LoopEmit(e)
  \/ SpinPoll
  \/ Deliver
  \/ \E t \in Threads, e \in Events : HandlerEmit(t, e)
  \/ \E t \in Threads : HandlerReturn(t)
  \/ \E t \in Threads : SetHasRemote(t)
  \/ \E t \in Threads : PushLoad(t)
  \/ \E t \in Threads : PushStore(t)
  \/ \E t \in Threads : PushLocked(t)
  \/ \E w \in Items : WorkerCheck(w)
  \/ \E w \in Items : WorkerSpinStop(w)
  \/ \E w \in Items : WorkerPop(w)
  \/ \E x \in Items, e \in Events : ExtEmit(x, e)
  \/ \E x \in Items : ExtReturn(x)

Spec == Init /\ [][Next]_vars

\* a loop held through SharedEventLoopPtr copies, with external handles that
\* may outlive it
InitShared ==
  /\ topo \in {TopoExternal, TopoFanout}
  /\ analysed = TRUE
  /\ pcount = [i \in Items |-> IF IsOwn(i) THEN producer_count_for(topo, i) ELSE 0]
  /\ qkind = [i \in Items |-> queue_type(topo, i)]
  /\ InitLoop

\* the loops of InitShared have no multi-producer inbox
NextShared ==
  \/ Start
  \/ StopBegin
  \/ StopJoin
  \/ \E e \in Events : LoopEmit(e)
  \/ SpinPoll
  \/ Deliver
  \/ \E t \in Threads, e \in Events : HandlerEmit(t, e)
  \/ \E t \in Threads : HandlerReturn(t)
  \/ \E t \in Threads : SetHasRemote(t)
  \/ \E t \in Threads : PushLoad(t)
  \/ \E t \in Threads : PushStore(t)
  \/ \E w \in Items : WorkerCheck(w)
  \/ \E w \in Items : WorkerSpinStop(w)
  \/ \E w \in Items : WorkerPop(w)
  \/ \E x \in Items, e \in Events : ExtEmit(x, e)
  \/ \E x \in Items : ExtReturn(x)
  \/ CopyPtr
  \/ DropPtr
  \/ \E x \in Items : ExtEmitExpired(x)

SpecShared == InitShared /\ [][NextShared]_vars

\* loops whose inboxes have as many producers as the analysis counted
InitFair ==
  /\ topo \in {TopoCross, TopoMixed}
  /\ analysed = TRUE
  /\ pcount = [i \in Items |-> IF IsOwn(i) THEN producer_count_for(topo, i) ELSE 0]
  /\ qkind = [i \in Items |-> queue_type(topo, i)]
  /\ InitLoop

\* every worker thread keeps running, every on_event that was entered
\* returns, every push that was begun completes, and a join returns once
\* the joined thread has exited
Fairness ==
  /\ WF_vars(StopJoin)
  /\ WF_vars(\E w \in Items : WorkerCheck(w))
  /\ WF_vars(\E w \in Items : WorkerSpinStop(w))
  /\ WF_vars(\E w \in Items : WorkerPop(w))
  /\ WF_vars(\E w \in Items : HandlerReturn(w))
  /\ WF_vars(\E w \in Items : SetHasRemote(w))
  /\ WF_vars(\E w \in Items : PushLoad(w) \/ PushStore(w) \/ PushLocked(w))

SpecFair == InitFair /\ [][Next]_vars /\ Fairness

\* running loops with fan-out and with several producers of one inbox
InitMulti ==
  /\ topo \in {TopoTwoOwnProducers, TopoSameOwnProducers, TopoFanout}
  /\ analysed = TRUE
  /\ pcount = [i \in Items |-> IF IsOwn(i) THEN producer_count_for(topo, i) ELSE 0]
  /\ qkind = [i \in Items |-> queue_type(topo, i)]
  /\ InitLoop

NextMulti ==
  \/ Start
  \/ \E e \in Events : LoopEmit(e)
  \/ SpinPoll
  \/ Deliver
  \/ \E t \in Threads, e \in Events : HandlerEmit(t, e)
  \/ \E t \in Threads : HandlerReturn(t)
  \/ \E t \in Threads : PushLoad(t)
  \/ \E t \in Threads : PushStore(t)
  \/ \E t \in Threads : PushLocked(t)
  \/ \E w \in Items : WorkerCheck(w)
  \/ \E w \in Items : WorkerPop(w)

SpecMulti == InitMulti /\ [][NextMulti]_vars

\* loops with two producers on different threads feeding one own-thread
\* consumer; every thread that can take a step eventually takes one
InitProducers ==
  /\ topo \in {TopoTwoOwnProducers, TopoSameOwnProducers}
  /\ analysed = TRUE
  /\ pcount = [i \in Items |-> IF IsOwn(i) THEN producer_count_for(topo, i) ELSE 0]
  /\ qkind = [i \in Items |-> queue_type(topo, i)]
  /\ InitLoop

FairnessProducers ==
  /\ WF_vars(SpinPoll)
  /\ WF_vars(Deliver)
  /\ WF_vars(\E t \in Threads : HandlerReturn(t))
  /\ WF_vars(\E t \in Threads : PushLoad(t) \/ PushStore(t) \/ PushLocked(t))
  /\ WF_vars(\E w \in Items : WorkerCheck(w))
  /\ WF_vars(\E w \in Items : WorkerPop(w))

\* the loop thread emits only the event that triggers the producers
NextProducers ==
  \/ Start
  \/ LoopEmit("B")
  \/ SpinPoll
  \/ Deliver
  \/ \E t \in Threads, e \in Events : HandlerEmit(t, e)
  \/ \E t \in Threads : HandlerReturn(t)
  \/ \E t \in Threads : PushLoad(t)
  \/ \E t \in Threads : PushStore(t)
  \/ \E t \in Threads : PushLocked(t)
  \/ \E w \in Items : WorkerCheck(w)
  \/ \E w \in Items : WorkerPop(w)

SpecProducers == InitProducers /\ [][NextProducers]_vars /\ FairnessProducers

\* the two ping-pong loops of the test suite; every thread that can take a
\* step eventually takes one
InitPingPong ==
  /\ topo \in {TopoPingPong, TopoThreadedPingPong}
  /\ analysed = TRUE
  /\ pcount = [i \in Items |-> IF IsOwn(i) THEN producer_count_for(topo, i) ELSE 0]
  /\ qkind = [i \in Items |-> queue_type(topo, i)]
  /\ InitLoop

NextPingPong ==
  \/ Start
  \/ PingPongSeed
  \/ SpinPoll
  \/ Deliver
  \/ \E t \in Threads : PingPongEmit(t)
  \/ \E t \in Threads : PingPongReturn(t)
  \/ \E t \in Threads : PushLoad(t)
  \/ \E t \in Threads : PushStore(t)
  \/ \E w \in Items : WorkerCheck(w)
  \/ \E w \in Items : WorkerPop(w)

FairnessPingPong ==
  /\ WF_vars(\E t \in Threads : PingPongEmit(t))
  /\ WF_vars(\E t \in Threads : PingPongReturn(t))
  /\ WF_vars(\E t \in Threads : PushLoad(t) \/ PushStore(t))
  /\ WF_vars(\E w \in Items : WorkerCheck(w))
  /\ WF_vars(\E w \in Items : WorkerPop(w))

SpecPingPong == InitPingPong /\ [][NextPingPong]_vars /\ FairnessPingPong

\* loops driven by the blocking strategies and by run() / run_while()
Strategies == {"Spin", "Wait", "Hybrid"}

InitWait ==
  /\ topo = TopoFanout
  /\ analysed = TRUE
  /\ pcount = [i \in Items |-> IF IsOwn(i) THEN producer_count_for(topo, i) ELSE 0]
  /\ qkind = [i \in Items |-> queue_type(topo, i)]
  /\ InitLoop

NextWait ==
  \/ Start
  \/ StopBegin
  \/ \E e \in Events : LoopEmit(e)
  \/ WaitPoll
  \/ HybridPoll
  \/ WaitLock
  \/ WaitWake
  \/ WaitFinish
  \/ \E s \in Strategies : RunEnter(s)
  \/ RunPoll
  \/ \E b \in BOOLEAN : RunExit(b)
  \/ Deliver
  \/ \E t \in Threads, e \in Events : HandlerEmit(t, e)
  \/ \E t \in Threads : HandlerReturn(t)
  \/ \E t \in Threads : SetHasRemote(t)
  \/ \E x \in Items, e \in Events : ExtEmit(x, e)
  \/ \E x \in Items : ExtReturn(x)

SpecWait == InitWait /\ [][NextWait]_vars

\* the loop thread keeps running: a blocked wait returns once notified, a
\* begun poll goes on, on_event returns, run() re-evaluates its condition;
\* a producer that has pushed goes on to set has_remote_ and notify
FairnessWait ==
  /\ WF_vars(WaitLock)
  /\ WF_vars(WaitWake)
  /\ WF_vars(WaitFinish)
  /\ WF_vars(Deliver)
  /\ WF_vars(\E t \in Threads : HandlerReturn(t))
  /\ WF_vars(\E t \in Threads : SetHasRemote(t))
  /\ WF_vars(RunExit(FALSE))

InitWaitFair ==
  /\ topo = TopoWait
  /\ analysed = TRUE
  /\ pcount = [i \in Items |-> IF IsOwn(i) THEN producer_count_for(topo, i) ELSE 0]
  /\ qkind = [i \in Items |-> queue_type(topo, i)]
  /\ InitLoop

NextWaitFair ==
  \/ Start
  \/ StopBegin
  \/ \E e \in Events : LoopEmit(e)
  \/ WaitLock
  \/ WaitWake
  \/ WaitFinish
  \/ \E s \in {"Wait", "Hybrid"} : RunEnter(s)
  \/ RunPoll
  \/ \E b \in BOOLEAN : RunExit(b)
  \/ Deliver
  \/ \E t \in Threads : HandlerReturn(t)
  \/ \E t \in Threads : SetHasRemote(t)
  \/ \E x \in Items, e \in Events : ExtEmit(x, e)
  \/ \E x \in Items : ExtReturn(x)

SpecWaitFair == InitWaitFair /\ [][NextWaitFair]_vars /\ FairnessWait

\* loops on which EventLoop::emit is also called by a thread that does not poll
InitAnyThread ==
  /\ topo \in {TopoCross, TopoFanout}
  /\ analysed = TRUE
  /\ pcount = [i \in Items |-> IF IsOwn(i) THEN producer_count_for(topo, i) ELSE 0]
  /\ qkind = [i \in Items |-> queue_type(topo, i)]
  /\ InitLoop

\* the loops of InitAnyThread have no multi-producer inbox
NextAnyThread ==
  \/ Start
  \/ StopBegin
  \/ StopJoin
  \/ \E e \in Events : LoopEmit(e)
  \/ \E e \in Events : OffThreadEmit(e)
  \/ SpinPoll
  \/ Deliver
  \/ \E t \in Threads, e \in Events : HandlerEmit(t, e)
  \/ \E t \in Threads : HandlerReturn(t)
  \/ \E t \in Threads : SetHasRemote(t)
  \/ \E t \in Threads : PushLoad(t)
  \/ \E t \in Threads : PushStore(t)
  \/ \E w \in Items : WorkerCheck(w)
  \/ \E w \in Items : WorkerSpinStop(w)
  \/ \E w \in Items : WorkerPop(w)
  \/ \E x \in Items, e \in Events : ExtEmit(x, e)
  \/ \E x \in Items : ExtReturn(x)

SpecAnyThread == InitAnyThread /\ [][NextAnyThread]_vars

\* an SPSC inbox with its one producer thread (an external emitter) and its
\* one consumer thread (the worker of the receiver), interleaved freely with
\* start and stop
InitSpsc ==
  /\ topo = TopoExternal
  /\ analysed = TRUE
  /\ pcount = [i \in Items |-> IF IsOwn(i) THEN producer_count_for(topo, i) ELSE 0]
  /\ qkind = [i \in Items |-> queue_type(topo, i)]
  /\ InitLoop

NextSpsc ==
  \/ Start
  \/ StopBegin
  \/ StopJoin
  \/ \E t \in Threads : HandlerReturn(t)
  \/ \E t \in Threads : PushLoad(t)
  \/ \E t \in Threads : PushStore(t)
  \/ \E w \in Items : WorkerCheck(w)
  \/ \E w \in Items : WorkerSpinStop(w)
  \/ \E w \in Items : WorkerPop(w)
  \/ \E x \in Items, e \in Events : ExtEmit(x, e)
  \/ \E x \in Items : ExtReturn(x)

SpecSpsc == InitSpsc /\ [][NextSpsc]_vars

\* an inbox of either kind (SPSC with one external producer, MPSC with two)
\* and its worker thread, with start and stop; every thread that can take a
\* step eventually takes one
InitInbox ==
  /\ topo \in {TopoExternal, TopoTwoExternal}
  /\ analysed = TRUE
  /\ pcount = [i \in Items |-> IF IsOwn(i) THEN producer_count_for(topo, i) ELSE 0]
  /\ qkind = [i \in Items |-> queue_type(topo, i)]
  /\ InitLoop

NextInbox ==
  \/ NextSpsc
  \/ \E t \in Threads : PushLocked(t)

SpecInbox == InitInbox /\ [][NextInbox]_vars /\ Fairness

\* a loop-hosted receiver fed through the shared side of the mailbox by a
\* worker thread and an external emitter; the loop thread keeps polling with
\* Spin (DualQueue::try_pop), a dispatch that was begun completes, a
\* push_remote_event that has left its critical section goes on to set
\* has_remote_
InitTryPop ==
  /\ topo = TopoTwoRemote
  /\ analysed = TRUE
  /\ pcount = [i \in Items |-> IF IsOwn(i) THEN producer_count_for(topo, i) ELSE 0]
  /\ qkind = [i \in Items |-> queue_type(topo, i)]
  /\ InitLoop

NextTryPop ==
  \/ Start
  \/ LoopEmit("B")
  \/ \E t \in Threads : PushLoad(t)
  \/ \E t \in Threads : PushStore(t)
  \/ \E w \in Items : WorkerCheck(w)
  \/ \E w \in Items : WorkerPop(w)
  \/ \E t \in Threads : HandlerEmit(t, "A")
  \/ SpinPoll
  \/ Deliver
  \/ \E t \in Threads : HandlerReturn(t)
  \/ \E t \in Threads : SetHasRemote(t)
  \/ \E x \in Items, e \in Events : ExtEmit(x, e)
  \/ \E x \in Items : ExtReturn(x)

FairnessTryPop ==
  /\ WF_vars(SpinPoll)
  /\ WF_vars(PushLoad(LoopThread))
  /\ WF_vars(PushStore(LoopThread))
  /\ WF_vars(Deliver)
  /\ WF_vars(\E t \in Threads : HandlerReturn(t))
  /\ WF_vars(\E t \in Threads : SetHasRemote(t))

SpecTryPop == InitTryPop /\ [][NextTryPop]_vars /\ FairnessTryPop

\* a loop that is started, stopped and started again any number of times
\* while the loop thread emits and polls (Spin::poll or Wait::poll)
InitRestart ==
  /\ topo = TopoRestart
  /\ analysed = TRUE
  /\ pcount = [i \in Items |-> IF IsOwn(i) THEN producer_count_for(topo, i) ELSE 0]
  /\ qkind = [i \in Items |-> queue_type(topo, i)]
  /\ InitLoop

NextRestart ==
  \/ Start
  \/ StopBegin
  \/ StopJoin
  \/ LoopEmit("A")
  \/ \E t \in Threads : PushLoad(t)
  \/ \E t \in Threads : PushStore(t)
  \/ \E w \in Items : WorkerCheck(w)
  \/ \E w \in Items : WorkerSpinStop(w)
  \/ \E w \in Items : WorkerPop(w)
  \/ SpinPoll
  \/ WaitPoll
  \/ WaitLock
  \/ WaitWake
  \/ WaitFinish
  \/ Deliver
  \/ \E t \in Threads : HandlerReturn(t)

\* the worker keeps running and a join returns (Fairness); the loop thread
\* keeps polling, and what it has begun (a push, a wait, a dispatch) goes on
FairnessRestart ==
  /\ Fairness
  /\ WF_vars(SpinPoll)
  /\ WF_vars(WaitLock)
  /\ WF_vars(WaitWake)
  /\ WF_vars(WaitFinish)
  /\ WF_vars(Deliver)
  /\ WF_vars(HandlerReturn(LoopThread))
  /\ WF_vars(PushLoad(LoopThread))
  /\ WF_vars(PushStore(LoopThread))

SpecRestart == InitRestart /\ [][NextRestart]_vars /\ FairnessRestart

\* ------------------------------------------------------------------------
\* A RingBuffer on its own: push, alloc_slot / commit_push and try_pop called
\* by one thread in any order (test_queue.cpp "RingBuffer ..." cases)
\* ------------------------------------------------------------------------

\* everything but the ring exercised alone
loopVarsButRing ==
  <<running, mq, inbox, wrun, nthreads, th, stopper, strong, copies, life, ub,
    emitted, nextSeq, received, filled, starts, stopReturned, polled,
    extResult, localTouch, drv, ncopies>>

\* the k-th value handed to the ring
RingValue(k) == Envelope("A", LoopThread, k, k)

\* RingBuffer::push(T&&): false on a full ring, else store and ++tail_
RingPush ==
  /\ rb.n < MaxRingOps
  /\ rb.slot = -1
  /\ LET ok == ~local_full(rb.q)
         ev == RingValue(rb.n + 1)
     IN rb' = [rb EXCEPT !.q = ring_push(rb.q, ev),
                         !.op = "push",
                         !.ret = IF ok THEN "true" ELSE "false",
                         !.n = @ + 1,
                         !.pushed = IF ok THEN Append(@, ev) ELSE @]
  /\ UNCHANGED <<env, topo, analysed, pcount, qkind, loopVarsButRing>>

\* RingBuffer::alloc_slot: nullptr on a full ring, else &buffer_[tail_ & mask_]
RingAlloc ==
  /\ rb.n < MaxRingOps
  /\ rb.slot = -1
  /\ rb' = [rb EXCEPT !.op = "alloc_slot",
                      !.n = @ + 1,
                      !.slot = IF local_full(rb.q) THEN -1
                               ELSE rb.q.tail % Capacity,
                      !.ret = IF local_full(rb.q) THEN "null" ELSE "slot"]
  /\ UNCHANGED <<env, topo, analysed, pcount, qkind, loopVarsButRing>>

\* the caller stores into the allocated slot, then RingBuffer::commit_push
RingCommit ==
  /\ rb.slot # -1
  /\ LET ev == RingValue(rb.n)
     IN rb' = [rb EXCEPT !.q.buf[rb.slot] = ev,
                         !.q.tail = @ + 1,
                         !.op = "commit_push",
                         !.ret = "none",
                         !.slot = -1,
                         !.pushed = Append(@, ev)]
  /\ UNCHANGED <<env, topo, analysed, pcount, qkind, loopVarsButRing>>

\* variant of RingBuffer::try_pop that hands out the newest element
ring_try_pop_newest(q) ==
  [q |-> [q EXCEPT !.tail = @ - 1], out |-> q.buf[(q.tail - 1) % Capacity]]

\* RingBuffer::try_pop on a non-empty ring: &buffer_[head_++ & mask_]
ring_try_pop(q) ==
  [q |-> [q EXCEPT !.head = @ + 1], out |-> q.buf[q.head % Capacity]]

\* RingBuffer::try_pop: nullptr on an empty ring
RingTryPop ==
  /\ rb.slot = -1
  /\ IF rb.q.head = rb.q.tail
       THEN rb' = [rb EXCEPT !.op = "try_pop", !.ret = "null"]
       ELSE rb' = [rb EXCEPT !.q = ring_try_pop(rb.q).q,
                             !.op = "try_pop",
                             !.ret = "value",
                             !.popped = Append(@, ring_try_pop(rb.q).out)]
  /\ UNCHANGED <<env, topo, analysed, pcount, qkind, loopVarsButRing>>

InitRing ==
  /\ topo = TopoWait
  /\ analysed = TRUE
  /\ pcount = [i \in Items |-> IF IsOwn(i) THEN producer_count_for(topo, i) ELSE 0]
  /\ qkind = [i \in Items |-> queue_type(topo, i)]
  /\ InitLoop

NextRing == RingPush \/ RingAlloc \/ RingCommit \/ RingTryPop

SpecRing == InitRing /\ [][NextRing]_vars

\* ------------------------------------------------------------------------
\* TaggedEvent<TrackedString, int> objects on their own: construction,
\* store, copy / move construction and assignment, destruction
\* (test_tagged_event.cpp)
\* ------------------------------------------------------------------------

\* payload values: a moved-from payload holds 0
PayloadValues == {1, 2}

\* indices of the event types of the envelope
PayloadTypes == {0, 1}

\* variant of TaggedEvent::destroy that resets the tag and runs no destructor
destroy_tag_only(e, i) ==
  [e EXCEPT !.obj[i].tag = uninitialized_tag(e.n)]

\* TaggedEvent::destroy: the destructor of the live payload, if any, then
\* tag = uninitialized_tag
destroy(e, i) ==
  IF e.obj[i].tag # uninitialized_tag(e.n)
    THEN [e EXCEPT !.obj[i].tag = uninitialized_tag(e.n),
                   !.obj[i].payload = NoPayload,
                   !.log = Append(@, <<"dtor", i>>)]
    ELSE e

\* placement new of a payload of type k and value v into the storage of i
construct(e, i, k, v) ==
  [e EXCEPT !.obj[i].payload = [alive |-> TRUE, type |-> k, val |-> v],
            !.log = Append(@, <<"ctor", i>>)]

\* TaggedEvent::store
store(e, i, k, v) ==
  construct([destroy(e, i) EXCEPT !.obj[i].tag = Wide(0, k)], i, k, v)

\* `tag = other.tag; if (tag != uninitialized_tag) copy_construct_from(other)`
copy_from(e, i, j) ==
  LET e1 == [e EXCEPT !.obj[i].tag = e.obj[j].tag] IN
  IF e.obj[j].tag # uninitialized_tag(e.n)
    THEN construct(e1, i, e.obj[j].payload.type, e.obj[j].payload.val)
    ELSE e1

\* `tag = other.tag; if (tag != uninitialized_tag) { move_construct_from(other);
\* other.destroy(); }`: the payload of other is moved from, then destroyed
move_from(e, i, j) ==
  LET e1 == [e EXCEPT !.obj[i].tag = e.obj[j].tag] IN
  IF e.obj[j].tag # uninitialized_tag(e.n)
    THEN destroy([construct(e1, i, e.obj[j].payload.type, e.obj[j].payload.val)
                    EXCEPT !.obj[j].payload.val = 0], j)
    ELSE e1

\* the harness starts an operation: the log of the previous one is dropped
EnvCall(op, i, j) == [env EXCEPT !.op = op, !.dst = i, !.src = j, !.log = <<>>]

EnvFrame == UNCHANGED <<topo, analysed, pcount, qkind, loopVarsButRing, rb>>

\* TaggedEvent()
EnvDefault(i) ==
  /\ ~env.obj[i].exists
  /\ env' = [EnvCall("default", i, 0) EXCEPT !.obj[i] = DefaultEnvelope(env.n)]
  /\ EnvFrame

\* TaggedEvent::store(E&&)
EnvStore(i, k, v) ==
  /\ env.obj[i].exists
  /\ env' = store(EnvCall("store", i, 0), i, k, v)
  /\ EnvFrame

\* TaggedEvent(const TaggedEvent&)
EnvCopyConstruct(i, j) ==
  /\ i # j
  /\ ~env.obj[i].exists
  /\ env.obj[j].exists
  /\ env' = copy_from([EnvCall("copy_construct", i, j)
                         EXCEPT !.obj[i] = DefaultEnvelope(env.n)], i, j)
  /\ EnvFrame

\* TaggedEvent(TaggedEvent&&)
EnvMoveConstruct(i, j) ==
  /\ i # j
  /\ ~env.obj[i].exists
  /\ env.obj[j].exists
  /\ env' = move_from([EnvCall("move_construct", i, j)
                         EXCEPT !.obj[i] = DefaultEnvelope(env.n)], i, j)
  /\ EnvFrame

\* operator=(const TaggedEvent&), also with this == &other
EnvCopyAssign(i, j) ==
  /\ env.obj[i].exists
  /\ env.obj[j].exists
  /\ env' = IF i = j THEN EnvCall("copy_assign", i, j)
            ELSE copy_from(destroy(EnvCall("copy_assign", i, j), i), i, j)
  /\ EnvFrame

\* operator=(TaggedEvent&&), also with this == &other
EnvMoveAssign(i, j) ==
  /\ env.obj[i].exists
  /\ env.obj[j].exists
  /\ env' = IF i = j THEN EnvCall("move_assign", i, j)
            ELSE move_from(destroy(EnvCall("move_assign", i, j), i), i, j)
  /\ EnvFrame

\* ~TaggedEvent()
EnvDestruct(i) ==
  /\ env.obj[i].exists
  /\ env' = [destroy(EnvCall("destruct", i, 0), i) EXCEPT !.obj[i].exists = FALSE]
  /\ EnvFrame

InitEnvelope ==
  /\ topo = TopoWait
  /\ analysed = TRUE
  /\ pcount = [i \in Items |-> IF IsOwn(i) THEN producer_count_for(topo, i) ELSE 0]
  /\ qkind = [i \in Items |-> queue_type(topo, i)]
  /\ InitLoop

NextEnvelope ==
  \/ \E i \in EnvIds : EnvDefault(i)
  \/ \E i \in EnvIds, k \in PayloadTypes, v \in PayloadValues : EnvStore(i, k, v)
  \/ \E i \in EnvIds, j \in EnvIds : EnvCopyConstruct(i, j)
  \/ \E i \in EnvIds, j \in EnvIds : EnvMoveConstruct(i, j)
  \/ \E i \in EnvIds, j \in EnvIds : EnvCopyAssign(i, j)
  \/ \E i \in EnvIds, j \in EnvIds : EnvMoveAssign(i, j)
  \/ \E i \in EnvIds : EnvDestruct(i)

SpecEnvelope == InitEnvelope /\ [][NextEnvelope]_vars

\* ------------------------------------------------------------------------
\* Envelopes on a queue: a RingBuffer, an inbox (SPSCQueue /
\* ThreadSafeRingBuffer) or a DualQueue of TaggedEvent<TrackedString>, with
\* every payload construction and destruction counted
\* (test_queue.cpp "no memory leaks")
\* ------------------------------------------------------------------------

\* the envelope the caller builds (`tagged_event` of the tests, `tagged` of
\* push_remote_event)
Caller == 1

\* the by-value parameter of SPSCQueue::push / ThreadSafeRingBuffer::push
Param == 2

\* current_ of an inbox
Current == 3

\* buffer_[k]
Slot(k) == 4 + k

\* the elements remote_queue_ can hold
RemoteIds == (4 + Capacity)..(3 + 2 * Capacity)

LifeIds == 1..(3 + 2 * Capacity)

SlotIds == {Slot(k) : k \in 0..(Capacity - 1)}

\* a freshly constructed queue of the given kind: buffer_ (and current_ of an
\* inbox) hold default-constructed envelopes; `n` counts the envelopes
\* created, `ctors` / `dtors` the payload constructions and destructions,
\* `rejected`: a push found the queue full, `leftover`: the queue was
\* destroyed with envelopes still queued
NewQueue(kind) ==
  [n |-> EventUniverse, bytes |-> tag_type_selector(EventUniverse),
   obj |-> [i \in LifeIds |->
              IF i \in SlotIds \/ (i = Current /\ kind = "Inbox")
                THEN DefaultEnvelope(EventUniverse) ELSE NoObject],
   op |-> "none", dst |-> 0, src |-> 0, log |-> <<>>,
   kind |-> kind, head |-> 0, tail |-> 0, remote |-> <<>>, made |-> 0,
   ctors |-> 0, dtors |-> 0, rejected |-> FALSE, leftover |-> FALSE]

\* number of entries of a log with the given first component
RECURSIVE LogCount(_, _)
LogCount(log, what) ==
  IF log = <<>> THEN 0
  ELSE (IF Head(log)[1] = what THEN 1 ELSE 0) + LogCount(Tail(log), what)

\* the constructor / destructor of TrackedString counts every call
Tally(e) ==
  [e EXCEPT !.ctors = @ + LogCount(e.log, "ctor"),
            !.dtors = @ + LogCount(e.log, "dtor")]

LifeCall(op) == [env EXCEPT !.op = op, !.log = <<>>]

\* `tail_ - head_ >= Capacity`
life_full(e) == e.tail - e.head >= Capacity

\* TaggedEvent e; e.store(TrackedString{v})
make_envelope(e, i, v) ==
  store([e EXCEPT !.obj[i] = DefaultEnvelope(e.n)], i, 0, v)

\* ~TaggedEvent of object i
destruct(e, i) == [destroy(e, i) EXCEPT !.obj[i].exists = FALSE]

\* `buffer_[tail_++ & mask_] = std::move(event)`: move assignment into the
\* slot at tail
push_slot(e, j) ==
  [move_from(destroy(e, Slot(e.tail % Capacity)), Slot(e.tail % Capacity), j)
     EXCEPT !.tail = @ + 1]

\* the test builds an envelope holding a tracked payload
LifeMake(v) ==
  /\ env.kind \in {"RingBuffer", "Inbox"}
  /\ ~env.obj[Caller].exists
  /\ env.made < MaxLifeOps
  /\ env' = Tally([make_envelope(LifeCall("make"), Caller, v) EXCEPT !.made = @ + 1])
  /\ EnvFrame

\* RingBuffer::push(T&&) of the caller's envelope
LifePush ==
  /\ env.kind = "RingBuffer"
  /\ env.obj[Caller].exists
  /\ env.obj[Caller].payload.alive
  /\ env' = IF life_full(env)
              THEN [LifeCall("push") EXCEPT !.rejected = TRUE]
              ELSE Tally(push_slot(LifeCall("push"), Caller))
  /\ EnvFrame

\* SPSCQueue::push(T) / ThreadSafeRingBuffer::push(T) called with
\* std::move(envelope): the parameter is move-constructed, moved into the
\* slot unless the queue is full, and destroyed on return
LifePushByValue ==
  /\ env.kind = "Inbox"
  /\ env.obj[Caller].exists
  /\ env.obj[Caller].payload.alive
  /\ LET e0 == [LifeCall("push") EXCEPT !.obj[Param] = DefaultEnvelope(env.n)]
         e1 == move_from(e0, Param, Caller)
         e2 == IF life_full(e1) THEN [e1 EXCEPT !.rejected = TRUE]
               ELSE push_slot(e1, Param)
     IN env' = Tally(destruct(e2, Param))
  /\ EnvFrame

\* the caller's envelope goes out of scope
LifeScopeExit ==
  /\ env.obj[Caller].exists
  /\ env' = Tally(destruct(LifeCall("scope_exit"), Caller))
  /\ EnvFrame

\* RingBuffer::try_pop hands out the slot; SPSCQueue::try_pop /
\* ThreadSafeRingBuffer::try_pop move the slot into current_
LifePop ==
  /\ env.kind \in {"RingBuffer", "Inbox", "DualQueue"}
  /\ env.head # env.tail
  /\ LET e0 == [LifeCall("try_pop") EXCEPT !.head = @ + 1]
         from == Slot(env.head % Capacity)
     IN env' = IF env.kind = "Inbox"
                 THEN Tally(move_from(destroy(e0, Current), Current, from))
                 ELSE e0
  /\ EnvFrame

\* the lowest element of remote_queue_ not in use
FreeRemote(e) ==
  CHOOSE r \in RemoteIds :
    /\ ~e.obj[r].exists
    /\ \A q \in RemoteIds : q < r => e.obj[q].exists

\* DualQueue::push_remote_event: store into a local envelope, push it to
\* remote_queue_ (a new element is move-constructed), destroy the local
LifePushRemote(v) ==
  /\ env.kind = "DualQueue"
  /\ env.made < MaxLifeOps
  /\ Len(env.remote) < Capacity
  /\ LET r == FreeRemote(env)
         e0 == make_envelope(LifeCall("push_remote_event"), Caller, v)
         e1 == move_from([e0 EXCEPT !.obj[r] = DefaultEnvelope(env.n)], r, Caller)
         e2 == destruct(e1, Caller)
     IN env' = Tally([e2 EXCEPT !.remote = Append(@, r), !.made = @ + 1])
  /\ EnvFrame

\* DualQueue::push_local_event: store straight into the slot at tail, or
\* nothing when the ring is full
LifePushLocal(v) ==
  /\ env.kind = "DualQueue"
  /\ env.made < MaxLifeOps
  /\ LET e0 == [LifeCall("push_local_event") EXCEPT !.made = @ + 1]
     IN env' = IF life_full(env)
                 THEN [e0 EXCEPT !.rejected = TRUE]
                 ELSE Tally([store(e0, Slot(env.tail % Capacity), 0, v)
                               EXCEPT !.tail = @ + 1])
  /\ EnvFrame

\* the loop of DualQueue::drain_remote: push(std::move(front())) moves the
\* front element into the ring unless the ring is full; pop() destroys it
RECURSIVE life_drain(_)
life_drain(e) ==
  IF e.remote = <<>> THEN e
  ELSE LET r == Head(e.remote)
           e1 == IF life_full(e) THEN [e EXCEPT !.rejected = TRUE]
                 ELSE push_slot(e, r)
       IN life_drain([destruct(e1, r) EXCEPT !.remote = Tail(@)])

\* DualQueue::drain_remote with something in remote_queue_
LifeDrain ==
  /\ env.kind = "DualQueue"
  /\ env.remote # <<>>
  /\ env' = Tally(life_drain(LifeCall("drain_remote")))
  /\ EnvFrame

\* the destructors of the given objects, one after the other
RECURSIVE destruct_all(_, _)
destruct_all(e, ids) ==
  IF ids = {} THEN e
  ELSE LET i == CHOOSE x \in ids : TRUE
       IN destruct_all(IF e.obj[i].exists THEN destruct(e, i) ELSE e, ids \ {i})

\* variant of the queue destructor that destroys only the envelopes between
\* head and tail
destroy_queued_only(e) ==
  destruct_all(e, {Slot(k % Capacity) : k \in e.head..(e.tail - 1)}
                    \cup {e.remote[k] : k \in 1..Len(e.remote)})

\* the destructor of the queue: std::array destroys every element of
\* buffer_, then current_ and remote_queue_ are destroyed
destroy_queue(e) == destruct_all(e, LifeIds \ {Caller, Param})

\* the queue goes out of scope after the caller's envelope
LifeDestroy ==
  /\ env.kind \in {"RingBuffer", "Inbox", "DualQueue"}
  /\ ~env.obj[Caller].exists
  /\ env' = Tally([destroy_queue(LifeCall("destroy"))
                     EXCEPT !.kind = "destroyed",
                            !.leftover = (env.head # env.tail \/ env.remote # <<>>)])
  /\ EnvFrame

InitLife ==
  /\ topo = TopoWait
  /\ analysed = TRUE
  /\ pcount = [i \in Items |-> IF IsOwn(i) THEN producer_count_for(topo, i) ELSE 0]
  /\ qkind = [i \in Items |-> queue_type(topo, i)]
  /\ InitLoopButEnvelopes
  /\ env \in {NewQueue(kind) : kind \in {"RingBuffer", "Inbox", "DualQueue"}}

NextLife ==
  \/ \E v \in PayloadValues : LifeMake(v)
  \/ LifePush
  \/ LifePushByValue
  \/ LifeScopeExit
  \/ LifePop
  \/ \E v \in PayloadValues : LifePushRemote(v)
  \/ \E v \in PayloadValues : LifePushLocal(v)
  \/ LifeDrain
  \/ LifeDestroy

SpecLife == InitLife /\ [][NextLife]_vars

\* ------------------------------------------------------------------------
\* tag_type_selector<N> instantiated for universes of N event types around
\* the limits of the unsigned types, and the envelope default-constructed
\* with the selected tag type
\* ------------------------------------------------------------------------

\* low halves of N near 0, near 2^8 - 1 and near 2^16 - 1
TagLows ==
  (0..TagSpan) \cup ((2^8 - 1 - TagSpan)..(2^8 - 1 + TagSpan))
    \cup ((2^16 - 1 - TagSpan)..(2^16 - 1))

\* high halves of N: below 2^16, just above, at the top of 32 bits, beyond
TagHighs == {0, 1, 2^16 - 1, 2^16}

TagUniverses == {Wide(hi, lo) : hi \in TagHighs, lo \in TagLows}

\* TaggedEvent<Events...> with sizeof...(Events) = env.n is instantiated and
\* one object is default-constructed
TagInstantiate ==
  /\ env.bytes = 0
  /\ tag_type_valid(env.n)
  /\ env' = [env EXCEPT !.bytes = tag_type_selector(env.n),
                        !.op = "default",
                        !.dst = 1,
                        !.obj[1] = DefaultEnvelope(env.n)]
  /\ EnvFrame

\* the static_assert of tag_type_selector rejects the instantiation
TagReject ==
  /\ env.bytes = 0
  /\ ~tag_type_valid(env.n)
  /\ env' = [env EXCEPT !.bytes = -1, !.op = "static_assert"]
  /\ EnvFrame

InitTag ==
  /\ topo = TopoWait
  /\ analysed = TRUE
  /\ pcount = [i \in Items |-> IF IsOwn(i) THEN producer_count_for(topo, i) ELSE 0]
  /\ qkind = [i \in Items |-> queue_type(topo, i)]
  /\ InitLoopButEnvelopes
  /\ env \in {NoEnvelopes(n) : n \in TagUniverses}

NextTag == TagInstantiate \/ TagReject

SpecTag == InitTag /\ [][NextTag]_vars

\* ------------------------------------------------------------------------
\* C8: producer count and inbox kind
\* ------------------------------------------------------------------------

loop_hosted(it) == is_receiver(it) /\ get_thread_mode(it) = "SameThread"

thread_hosted(it) == is_receiver(it) /\ get_thread_mode(it) = "OwnThread"

\* the items of tp of class "loop", "thread" or "external" whose emits share
\* an event with receives(r)
emitters_into(tp, r, kind) ==
  {i \in 1..Len(tp) :
     /\ get_emits_t(tp[i]) \cap get_receives_t(tp[r]) # {}
     /\ CASE kind = "loop" -> loop_hosted(tp[i])
          [] kind = "thread" -> thread_hosted(tp[i])
          [] OTHER -> is_external_emitter(tp[i])}

\* C8: for every thread-hosted receiver R, producer_count(R) is 1 if some
\* loop-hosted receiver emits an event of receives(R) (else 0), plus the
\* number of thread-hosted receivers emitting such an event, plus the number
\* of external producers emitting such an event; the inbox of R is the SPSC
\* queue exactly when that count is at most 1, the MPSC ring otherwise.
C8_ProducerCount ==
  analysed =>
    \A r \in Items : thread_hosted(topo[r]) =>
       /\ pcount[r] = (IF emitters_into(topo, r, "loop") # {} THEN 1 ELSE 0)
                      + Cardinality(emitters_into(topo, r, "thread"))
                      + Cardinality(emitters_into(topo, r, "external"))
       /\ qkind[r] \in {"SPSCQueue", "ThreadSafeRingBuffer"}
       /\ (qkind[r] = "SPSCQueue") <=> (pcount[r] <= 1)

\* a loop-hosted, a thread-hosted and an external producer counted together
C8_Witness ==
  /\ analysed
  /\ \E r \in Items :
        /\ thread_hosted(topo[r])
        /\ pcount[r] = 3
        /\ qkind[r] = "ThreadSafeRingBuffer"
        /\ emitters_into(topo, r, "loop") # {}
        /\ emitters_into(topo, r, "external") # {}

\* ------------------------------------------------------------------------
\* C3: no synchronous delivery from inside on_event
\* ------------------------------------------------------------------------

\* C3: on every thread at most one on_event call is on the stack, and a
\* step in which a thread that is inside on_event starts an emit only
\* enqueues: it invokes no on_event (no receiver's log grows), so the event
\* is delivered by a later dispatch step.
C3_NoSynchronousDelivery ==
  /\ [](\A t \in Threads : Len(th[t].stack) <= 1)
  /\ [][\A t \in Threads :
          (th[t].pc = "handler" /\ nextSeq'[t] = nextSeq[t] + 1)
             => (received' = received /\ th'[t].stack = th[t].stack)]_vars

\* a thread inside on_event after its dispatcher.emit has returned, the
\* emitted event still queued
C3_Witness ==
  \E t \in Threads :
     /\ th[t].pc = "handler"
     /\ th[t].hemits = 1
     /\ Len(th[t].stack) = 1
     /\ \/ mq.local.head # mq.local.tail
        \/ mq.remote # <<>>
        \/ \E i \in Items : inbox[i].head # inbox[i].tail

\* ------------------------------------------------------------------------
\* C9: start is idempotent
\* ------------------------------------------------------------------------

\* C9: once start() has been called, however many times, and stop() has not
\* been called since, is_running() is true, every thread-hosted receiver has
\* exactly one worker thread, and every other item has none.
C9_StartIdempotent ==
  starts >= 1 =>
    /\ running
    /\ \A i \in Items : nthreads[i] = IF thread_hosted(topo[i]) THEN 1 ELSE 0
    /\ \A i \in Items : thread_hosted(topo[i]) => th[i].pc \notin {"none", "exited"}
    /\ \A i \in Items : loop_hosted(topo[i]) => th[i].pc = "none"

\* start() called twice in a row on a loop with both kinds of receiver
C9_Witness ==
  /\ starts = 2
  /\ running
  /\ \E i \in Items : thread_hosted(topo[i]) /\ nthreads[i] = 1
  /\ \E i \in Items : loop_hosted(topo[i]) /\ nthreads[i] = 0

\* ------------------------------------------------------------------------
\* C1: every completed emit is delivered exactly once to every consumer
\* ------------------------------------------------------------------------

\* number of on_event(e) invocations of receiver i so far
on_event_count(i, e) ==
  Cardinality({k \in 1..Len(received[i]) : received[i][k].type = e})

\* the loop is running, no call is in progress on any thread, the mailbox is
\* empty and every worker waits on an inbox it sees empty
Quiescent ==
  /\ running
  /\ stopper.pc = "idle"
  /\ th[CtrlThread].pc = "idle"
  /\ th[LoopThread].pc = "idle"
  /\ mq.local.head = mq.local.tail
  /\ mq.remote = <<>>
  /\ \A i \in Items : IsExt(i) => th[i].pc = "idle"
  /\ \A i \in Items : IsOwn(i) => (th[i].pc = "spin" /\ ~pop_ready(i))

\* C1: at quiescence of a running loop in which no ring ever filled, every
\* receiver declaring event type e has had on_event(e) invoked exactly once
\* per completed emit(e), whichever emit path was used.
C1_ExactlyOnceDelivery ==
  (Quiescent /\ ~filled) =>
     \A i \in Items, e \in Events :
        (is_receiver(topo[i]) /\ can_receive(topo[i], e)) => on_event_count(i, e) = emitted[e]

\* ------------------------------------------------------------------------
\* C2: per-producer, per-destination FIFO
\* ------------------------------------------------------------------------

\* the envelopes of one producer appear in a log in the order of their emits
FifoOrdered(log) ==
  \A j, k \in 1..Len(log) :
     (j < k /\ log[j].src = log[k].src) => log[j].seq < log[k].seq

\* C2: every receiver is handed the events of any one producer thread in the
\* order that producer enqueued them, in every interleaving.
C2_PerProducerFifo == \A i \in Items : FifoOrdered(received[i])

\* ------------------------------------------------------------------------
\* C4: nothing runs after stop() has returned
\* ------------------------------------------------------------------------

\* C4: once stop() has returned no worker thread exists, no worker invokes
\* on_event any more, and a poll made from then on hands no event to
\* dispatch_event (so no loop-hosted on_event follows either).
C4_NoDeliveryAfterStop ==
  /\ [](stopReturned => \A i \in Items : nthreads[i] = 0 /\ (IsOwn(i) => th[i].pc = "none"))
  /\ [][stopReturned => \A i \in Items : IsOwn(i) => received'[i] = received[i]]_vars
  /\ [][(stopReturned /\ stopReturned' /\ th[LoopThread].pc = "idle")
            => th'[LoopThread].pc # "dispatch"]_vars

\* ------------------------------------------------------------------------
\* C6: externally emitted events reach the loop-hosted receivers
\* ------------------------------------------------------------------------

\* C6: when a Spin / Yield poll has found nothing and nothing was enqueued
\* since, no completed emit is left on the shared side of the mailbox: the
\* only envelopes there belong to pushes that have not yet set has_remote_.
C6_SharedSideDrained ==
  polled = "null" =>
     \A k \in 1..Len(mq.remote) :
        th[mq.remote[k].src].pc = "flag" /\ th[mq.remote[k].src].em = mq.remote[k]

\* ------------------------------------------------------------------------
\* C10: stop is idempotent
\* ------------------------------------------------------------------------

\* start() was never called and stop() neither
NeverStarted == starts = 0 /\ ~stopReturned /\ stopper.pc = "idle"

\* what a completed stop() leaves behind, and what clearing a worker's
\* running flag goes with
StopPostcondition ==
  /\ [](stopReturned =>
          /\ ~running
          /\ mq.stop
          /\ \A i \in Items : ~wrun[i] /\ nthreads[i] = 0)
  /\ [][\A i \in Items : (wrun[i] /\ ~wrun'[i]) => inbox'[i].stop]_vars

\* a stop() that has to join a worker returns
StopTerminates == (stopper.pc = "join") ~> (stopper.pc = "idle")

\* C10 as stated: stop() clears running, signals the mailbox and the
\* inboxes, joins every worker and returns; a stop() on a loop that is
\* already stopped or was never started changes nothing.
C10_StopChangesNothing ==
  /\ StopPostcondition
  /\ StopTerminates
  /\ [][(StopBegin /\ (stopReturned \/ NeverStarted))
           => UNCHANGED <<running, mq, inbox, wrun, nthreads, th>>]_vars

\* C10: stop() clears running, signals the mailbox and the inbox of every
\* running worker, joins every worker and returns, provided every on_event
\* that was entered returns; a stop() on an already stopped loop changes
\* nothing; a stop() on a never-started loop sets the stop flag of the
\* mailbox and changes nothing else.
C10_StopIdempotent ==
  /\ StopPostcondition
  /\ StopTerminates
  /\ [][(StopBegin /\ stopReturned)
           => UNCHANGED <<running, mq, inbox, wrun, nthreads, th>>]_vars
  /\ [][(StopBegin /\ NeverStarted)
           => /\ stopReturned'
              /\ mq' = [mq EXCEPT !.stop = TRUE]
              /\ UNCHANGED <<running, inbox, wrun, nthreads, th>>]_vars

\* stop() has returned after joining a worker whose inbox still holds an
\* event
C10_Witness ==
  /\ stopReturned
  /\ mq.stop
  /\ \E i \in Items :
        /\ IsOwn(i)
        /\ inbox[i].stop
        /\ inbox[i].head # inbox[i].tail
        /\ th[i].pc = "none"

\* ------------------------------------------------------------------------
\* C5: external handles and the lifetime of the loop
\* ------------------------------------------------------------------------

\* C5: the loop leaves the state "alive" only when every SharedEventLoopPtr
\* copy is gone and no external emit is in progress; is_valid() is true
\* exactly while the loop is alive; once the loop is destroyed nothing of it
\* changes any more (no queue, no flag, no receiver log), and an emit on a
\* handle whose loop is gone returns false.
C5_ExternalEmitterSafety ==
  /\ [](life # "alive" =>
          /\ copies = 0
          /\ strong = 0
          /\ \A x \in Items : IsExt(x) => th[x].pc = "idle")
  /\ [](is_valid <=> life = "alive")
  /\ [][life = "destroyed" =>
          UNCHANGED <<running, mq, inbox, wrun, nthreads, th, received, emitted, nextSeq>>]_vars
  /\ [][\A x \in Items :
          (life # "alive" /\ extResult'[x] # extResult[x]) => extResult'[x] = "false"]_vars

\* a loop that has delivered events was destroyed and a handle that emitted
\* successfully before has had an emit rejected since
C5_Witness ==
  /\ life = "destroyed"
  /\ \E i \in Items : received[i] # <<>>
  /\ \E x \in Items : IsExt(x) /\ extResult[x] = "false" /\ nextSeq[x] > 0

\* ------------------------------------------------------------------------
\* C7: the local ring belongs to the loop thread
\* ------------------------------------------------------------------------

\* C7: no thread other than the loop thread ever reads or writes the local
\* ring of the mailbox: every enqueue made on another thread, through a
\* dispatcher, an external handle or EventLoop::emit, goes to the shared side.
C7_LocalRingLoopThreadOnly == localTouch = {}

\* ------------------------------------------------------------------------
\* C11: Wait::poll returns false only when the loop is stopped
\* ------------------------------------------------------------------------

\* the loop thread is inside wait_pop_any, about to take the mutex or blocked
InWait == th[LoopThread].pc \in {"wait", "parked", "woken"}

\* wait_pop_any returns nullptr in this step
WaitReturnsNull == InWait /\ th'[LoopThread].pc = "idle"

\* C11: a Wait::poll returns false only when the loop is not running: while
\* is_running() is true it blocks on an empty mailbox and returns true after
\* dispatching the event that becomes available.
C11_WaitFalseOnlyWhenStopped ==
  [][(drv.last = "Wait" /\ WaitReturnsNull) => ~running]_vars

\* ------------------------------------------------------------------------
\* C12: stop() wakes a consumer blocked in wait_pop_any
\* ------------------------------------------------------------------------

\* C12: a loop thread that is blocked in wait_pop_any, or is entering the
\* wait, when stop() is called leaves the wait (no wake-up is lost: while it
\* is blocked with the stop flag set a notification is pending); with an
\* empty remote queue wait_pop_any then returns nullptr, and a run() whose
\* loop is not running returns.
C12_StopWakesWaiter ==
  /\ []((th[LoopThread].pc = "parked" /\ mq.stop) => mq.notified)
  /\ [][(InWait /\ ~InWait' /\ mq.stop /\ mq.remote = <<>>)
          => th'[LoopThread].pc = "idle"]_vars
  /\ (InWait /\ mq.stop) ~> ~InWait
  /\ (drv.run # "none" /\ ~running) ~> (drv.run = "none" \/ running)

\* stop() was called while run() of the Wait strategy was blocked in
\* cv_.wait, and the wake-up is pending
C12_Witness ==
  /\ drv.run = "Wait"
  /\ th[LoopThread].pc = "parked"
  /\ mq.stop
  /\ mq.notified
  /\ ~running

\* ------------------------------------------------------------------------
\* C13: the spin budget of Hybrid
\* ------------------------------------------------------------------------

\* a Hybrid::poll is called in this step
HybridStep == HybridPoll \/ (RunPoll /\ drv.run = "Hybrid")

\* try_get_event of a poll called now returns nullptr
FindsNothing ==
  try_get_event_drain(mq).local.head = try_get_event_drain(mq).local.tail

\* what Hybrid::poll does when the spin budget is `budget` empty polls: an
\* event is dispatched and the counter reset; an empty poll within the
\* budget increments the counter and returns false without blocking; the
\* empty poll after the budget resets the counter and goes to wait_pop_any
HybridBudget(budget) ==
  IF ~FindsNothing
    THEN th'[LoopThread].pc = "dispatch" /\ drv'.empty_spins = 0
    ELSE IF drv.empty_spins + 1 <= budget
           THEN /\ th'[LoopThread].pc = "idle"
                /\ drv'.empty_spins = drv.empty_spins + 1
           ELSE /\ th'[LoopThread].pc \in {"wait", "dispatch"}
                /\ drv'.empty_spins = 0

SpinStep == SpinPoll \/ (RunPoll /\ drv.run = "Spin")

\* envelopes in the mailbox whose emit has completed: those of the local
\* ring and those of the remote queue whose push has set has_remote_
PendingInMailbox ==
  (mq.local.tail - mq.local.head)
    + Cardinality({k \in 1..Len(mq.remote) :
                     ~(th[mq.remote[k].src].pc = "flag"
                       /\ th[mq.remote[k].src].em = mq.remote[k])})

\* C14: a Spin / Yield poll pops at most one envelope and returns true
\* exactly when it goes on to dispatch one; while envelopes are pending in
\* the mailbox the poll returns true, with none pending it returns false and
\* no on_event is invoked; and run_while starts no poll once is_running()
\* is false.
C14_OneEnvelopePerPoll ==
  /\ [][SpinStep =>
          /\ mq'.local.head - mq.local.head \in {0, 1}
          /\ (th'[LoopThread].pc = "dispatch") = (mq'.local.head = mq.local.head + 1)
          /\ (th'[LoopThread].pc = "idle") = (polled' = "null")
          /\ received' = received]_vars
  /\ [][(SpinStep /\ PendingInMailbox > 0) => th'[LoopThread].pc = "dispatch"]_vars
  /\ [][(SpinStep /\ PendingInMailbox = 0) => th'[LoopThread].pc = "idle"]_vars
  /\ [][(drv.run # "none" /\ ~running /\ th[LoopThread].pc = "idle")
          => th'[LoopThread].pc = "idle"]_vars

\* ------------------------------------------------------------------------
\* C15: fan-out move policy
\* ------------------------------------------------------------------------

\* sum of f[x] over the elements x of S
RECURSIVE SetSum(_, _)
SetSum(f, S) ==
  IF S = {} THEN 0
  ELSE LET x == CHOOSE y \in S : TRUE IN f[x] + SetSum(f, S \ {x})

\* number of consumers of event type e, loop-hosted and thread-hosted
consumers(e) ==
  Len(same_thread_receivers(topo, e)) + Len(own_thread_receivers(topo, e))

\* no emit and no fan-out is in progress and the mailbox is empty: every
\* completed emit has been handed to all its loop-hosted consumers and
\* pushed to all its thread-hosted ones
FannedOut ==
  /\ ~ub
  /\ \A t \in Threads : th[t].em = NoEvent
  /\ th[LoopThread].pc # "dispatch"
  /\ th[LoopThread].rcvs = <<>>
  /\ mq.local.head = mq.local.tail
  /\ mq.remote = <<>>

\* C15: once every completed emit has been fanned out, and no ring was ever
\* full, the payloads have been copy-constructed k - 1 times per emit of an
\* event with k consumers (none for k = 1, one for an event with one
\* loop-hosted and one thread-hosted consumer).
C15_FanoutMovePolicy ==
  (FannedOut /\ ~filled) =>
     ncopies = SetSum([e \in Events |->
                         IF consumers(e) = 0 THEN 0
                         ELSE emitted[e] * (consumers(e) - 1)], Events)

\* an event with one loop-hosted and one thread-hosted consumer and an event
\* with a single consumer have both been emitted and fanned out
C15_Witness ==
  /\ topo = TopoSameOwnProducers
  /\ FannedOut
  /\ ~filled
  /\ emitted["B"] = 1
  /\ emitted["A"] >= 1
  /\ ncopies = 1

\* ------------------------------------------------------------------------
\* C16: same-thread ping-pong with limit 10
\* ------------------------------------------------------------------------

\* number of on_event invocations of receiver i
received_count(i) == Len(received[i])

\* payload of the last event handed to receiver i
last_value(i) == IF received[i] = <<>> THEN 0 ELSE received[i][Len(received[i])].val

\* the seed emit has been made and a Spin poll has returned false since
PolledUntilFalse ==
  /\ topo = TopoPingPong
  /\ nextSeq[LoopThread] > 0
  /\ th[LoopThread].pc = "idle"
  /\ polled = "null"

\* C16: in the same-thread ping-pong loop, once emit(Ping{0}) was called and
\* Spin::poll has returned false, PingReceiver and PongReceiver have each been
\* invoked 6 times and the last Pong handed to PingReceiver carries 11; no
\* receiver is ever invoked more often than that.
C16_SameThreadPingPong ==
  /\ topo = TopoPingPong =>
       /\ received_count(1) <= kPingPongExpectedCount
       /\ received_count(2) <= kPingPongExpectedCount
  /\ PolledUntilFalse =>
       /\ received_count(1) = kPingPongExpectedCount
       /\ received_count(2) = kPingPongExpectedCount
       /\ last_value(1) = kPingPongLastValue

C16_Witness ==
  /\ PolledUntilFalse
  /\ received_count(1) = 6
  /\ received_count(2) = 6
  /\ last_value(1) = 11
  /\ received[2][6].val = 10

\* ------------------------------------------------------------------------
\* C17: thread-hosted ping-pong with limit 100
\* ------------------------------------------------------------------------

\* the seed emit has returned, both workers wait on an inbox they see empty
\* and no on_event is in progress
ThreadedSettled ==
  /\ topo = TopoThreadedPingPong
  /\ nextSeq[LoopThread] = 1
  /\ th[LoopThread].pc = "idle"
  /\ \A i \in Items : th[i].pc = "spin" /\ ~pop_ready(i)

\* the counts and the final value the threaded scenario ends with
ThreadedDone ==
  /\ received_count(1) = kPingPongExpectedCountThreaded
  /\ received_count(2) = kPingPongExpectedCountThreaded
  /\ last_value(1) = kPingPongLimitThreaded + 1

\* C17: in the thread-hosted ping-pong loop seeded by one emit(Ping{0}), with
\* or without polls of the loop thread, no receiver is ever invoked more than
\* 51 times, the workers come to rest only with both counts at 51 and the
\* final Pong value at 101, and every interleaving gets there.
C17_ThreadedPingPong ==
  /\ [](topo = TopoThreadedPingPong =>
          /\ received_count(1) <= kPingPongExpectedCountThreaded
          /\ received_count(2) <= kPingPongExpectedCountThreaded
          /\ ~ub)
  /\ [](ThreadedSettled => ThreadedDone)
  /\ ((topo = TopoThreadedPingPong /\ nextSeq[LoopThread] = 1) ~> ThreadedDone)

C17_Witness ==
  /\ ThreadedSettled
  /\ ThreadedDone
  /\ polled = "none"
  /\ received[2][51].val = 100

\* ------------------------------------------------------------------------
\* C18: two producers on different threads, one MPSC consumer
\* ------------------------------------------------------------------------

\* the own-thread consumer of A in the multi-producer loops
Consumer == 3

\* number of events of source thread t handled by receiver i
count_from(i, t) ==
  Cardinality({k \in 1..Len(received[i]) : received[i][k].src = t})

\* no emit has been handed to receiver i twice
NoDuplicate(i) ==
  \A j, k \in 1..Len(received[i]) :
    (received[i][j].src = received[i][k].src /\ received[i][j].seq = received[i][k].seq)
      => j = k

\* C18: the consumer's inbox is an MPSC ring; it never handles an emit twice
\* nor more events than were emitted; at quiescence, no ring having filled,
\* it has handled every emitted A, and from each thread-hosted producer
\* exactly the events that producer emitted (the remainder being the loop
\* thread's); and every interleaving of a started loop ends with all emitted
\* events handled.
C18_MultiProducerDelivery ==
  /\ [](qkind[Consumer] = "ThreadSafeRingBuffer")
  /\ [](NoDuplicate(Consumer) /\ ~ub)
  /\ []((Quiescent /\ ~filled) =>
          /\ Len(received[Consumer]) = emitted["A"]
          /\ \A p \in Items :
               (IsOwn(p) /\ p # Consumer) => count_from(Consumer, p) = nextSeq[p])
  /\ <>[](~running \/ filled \/ Len(received[Consumer]) = emitted["A"])

C18_Witness ==
  /\ Quiescent
  /\ ~filled
  /\ topo = TopoTwoOwnProducers
  /\ count_from(Consumer, 1) = 1
  /\ count_from(Consumer, 2) = 1
  /\ Len(received[Consumer]) = 2

\* ------------------------------------------------------------------------
\* C19: a push to a full destination is reported to the emitting caller
\* ------------------------------------------------------------------------

\* the envelope of emit call n of thread t
IsEmit(ev, t, n) == ev.src = t /\ ev.seq = n

\* emit call n of thread t is in the inbox of own-thread receiver r, or r
\* has been handed it
InInbox(r, t, n) ==
  \/ \E k \in 0..(Capacity - 1) : IsEmit(inbox[r].buf[k], t, n)
  \/ \E k \in 1..Len(received[r]) : IsEmit(received[r][k], t, n)

\* emit call n of thread t is in the mailbox, or is being dispatched, or a
\* same-thread receiver has been handed it
InMailbox(t, n) ==
  \/ \E k \in 1..Len(mq.remote) : IsEmit(mq.remote[k], t, n)
  \/ \E k \in 0..(Capacity - 1) : IsEmit(mq.local.buf[k], t, n)
  \/ \E r \in Items : \E k \in 1..Len(received[r]) :
       ~IsOwn(r) /\ IsEmit(received[r][k], t, n)

\* the last emit of event type e by thread t was queued at every destination
ActuallyQueued(t, e) ==
  /\ e \in same_thread_events(topo) => InMailbox(t, nextSeq[t] - 1)
  /\ \A r \in Items :
       (IsOwn(r) /\ can_receive(topo[r], e)) => InInbox(r, t, nextSeq[t] - 1)

\* no thread other than t has called emit
OnlyEmitter(t) == \A u \in Threads : u # t => nextSeq[u] = 0

\* C19: whenever TypedExternalEmitter::emit returns true, the event it was
\* called with has been queued at every destination of its type: a push that
\* found the inbox or the mailbox full is reported to the caller.  (Stated
\* for a handle that is the only emitter, so that no other producer can have
\* interfered with its pushes.)
C19_CapacityErrorsReported ==
  [][\A x \in Items :
       (IsExt(x) /\ OnlyEmitter(x) /\ th[x].pc = "release" /\ th'[x].pc = "idle"
          /\ extResult'[x] = "true")
         => \A e \in get_emits_t(topo[x]) : ActuallyQueued(x, e)]_vars

\* ------------------------------------------------------------------------
\* C20: operations after stop() are no-ops, emit is accepted without effect
\* ------------------------------------------------------------------------

\* stop() has returned, start() has not been called since, and the loop
\* thread is not inside a dispatch that began earlier
Stopped == stopReturned /\ th[LoopThread].pc = "idle"

\* C20: between the return of stop() and the next start(), no operation on
\* the loop changes running_, starts a thread or invokes on_event: a poll
\* hands nothing to dispatch_event, whatever was emitted before or since, and
\* emit does not fail.
C20_NoOpAfterStop ==
  [][(Stopped /\ stopReturned') =>
       /\ th'[LoopThread].pc \notin {"dispatch", "handler"}
       /\ received' = received
       /\ running' = running /\ wrun' = wrun /\ nthreads' = nthreads
       /\ ~ub']_vars

\* ------------------------------------------------------------------------
\* C21: on_event runs only on the receiver's host thread
\* ------------------------------------------------------------------------

\* the thread hosting receiver r: its worker, or the thread driving the poll
host_thread(r) == IF IsOwn(r) THEN r ELSE LoopThread

\* thread t is inside on_event of receiver r (possibly inside an emit made
\* from it)
InOnEvent(t, r) == \E k \in 1..Len(th[t].stack) : th[t].stack[k] = r

\* C21: in every interleaving of emits, start and stop, on_event of a
\* receiver is executed only by its host thread (its own worker for a
\* thread-hosted receiver, the polling thread for a loop-hosted one), that
\* thread is inside at most one on_event of the receiver, and a receiver never
\* has more than one worker thread: no two on_event calls of one receiver
\* overlap.
C21_HostThreadOnly ==
  /\ \A t \in Threads, r \in Items : InOnEvent(t, r) => t = host_thread(r)
  /\ \A t \in Threads : \A j, k \in 1..Len(th[t].stack) :
       th[t].stack[j] = th[t].stack[k] => j = k
  /\ \A i \in Items : nthreads[i] <= 1

C21_Witness ==
  /\ topo = TopoMixed
  /\ InOnEvent(LoopThread, 1)
  /\ InOnEvent(2, 2)
  /\ th[2].pc = "handler"
  /\ th[LoopThread].pc = "handler"
  /\ starts = 2

\* ------------------------------------------------------------------------
\* C22: a drain that fills the local ring leaves the rest in the shared FIFO
\* ------------------------------------------------------------------------

\* envelope ev occupies a slot of the local ring of mailbox m, or is the
\* slot thread record thr has just popped for dispatch
HeldLocally(m, thr, ev) ==
  \/ \E i \in m.local.head..(m.local.tail - 1) : m.local.buf[i % Capacity] = ev
  \/ thr.pc = "dispatch" /\ m.local.buf[thr.slot] = ev

\* envelope ev is in the shared FIFO of mailbox m
HeldRemotely(m, ev) == \E k \in 1..Len(m.remote) : m.remote[k] = ev

\* C22: no step discards an envelope of the shared FIFO: after the step it
\* is still in the shared FIFO or it has been moved to the local ring; and
\* has_remote is cleared only by a step that leaves the shared FIFO empty.
C22_DrainKeepsRemainder ==
  /\ [][\A k \in 1..Len(mq.remote) :
          \/ HeldRemotely(mq', mq.remote[k])
          \/ HeldLocally(mq', th'[LoopThread], mq.remote[k])]_vars
  /\ [][(mq.has_remote /\ ~mq'.has_remote) => mq'.remote = <<>>]_vars

\* ------------------------------------------------------------------------
\* C23: no wake-up is lost between push_remote and wait_pop_any
\* ------------------------------------------------------------------------

\* some producer has left the critical section of push_remote_event and has
\* not yet stored has_remote_ and looked at waiting_
PushInProgress == \E t \in Threads : th[t].pc = "flag"

\* the loop thread is blocked in cv_.wait while the shared FIFO holds an event
AsleepWithEvent == th[LoopThread].pc = "parked" /\ mq.remote # <<>>

\* C23: whenever the loop thread is blocked in cv_.wait with a non-empty
\* shared FIFO and every push_remote has completed, a notification is
\* pending; and a loop thread that is in wait_pop_any (about to park, parked
\* or woken) while the shared FIFO is non-empty eventually leaves the wait
\* with an event to dispatch, whatever the interleaving of the producer's
\* push, flag and notify with the consumer's lock, park and wake steps.
C23_NoLostWakeup ==
  /\ []((AsleepWithEvent /\ ~PushInProgress) => mq.notified)
  /\ ((InWait /\ mq.remote # <<>>) ~> th[LoopThread].pc = "dispatch")

\* a producer has completed push_remote while the consumer was parked
C23_Witness ==
  /\ AsleepWithEvent
  /\ ~PushInProgress
  /\ mq.notified
  /\ mq.has_remote
  /\ ~mq.stop
  /\ running

\* ------------------------------------------------------------------------
\* C24: DualQueue::try_pop: local ring first, then one drain
\* ------------------------------------------------------------------------

\* a Spin poll of a loop whose try_get_event is DualQueue::try_pop
TryPopStep == SpinStep /\ has_remote_producers(topo)

\* C24: try_pop on a non-empty local ring pops its head and leaves the
\* shared FIFO and has_remote as they are; on an empty local ring with
\* has_remote set it empties the shared FIFO into the local ring and pops
\* the oldest envelope; it returns null only when the local ring is empty
\* and no completed push_remote is pending.
C24_TryPopLocalFirst ==
  [][TryPopStep =>
       /\ mq.local.head # mq.local.tail =>
            /\ mq'.remote = mq.remote
            /\ mq'.has_remote = mq.has_remote
            /\ mq'.local.tail = mq.local.tail
            /\ mq'.local.head = mq.local.head + 1
            /\ th'[LoopThread].slot = mq.local.head % Capacity
       /\ (mq.local.head = mq.local.tail /\ mq.has_remote) =>
            /\ mq'.remote = <<>>
            /\ ~mq'.has_remote
            /\ mq.remote # <<>> =>
                 /\ th'[LoopThread].pc = "dispatch"
                 /\ mq'.local.buf[th'[LoopThread].slot] = Head(mq.remote)
       /\ th'[LoopThread].pc = "idle" => PendingInMailbox = 0]_vars

\* a poll has drained an envelope pushed by a worker and is about to
\* dispatch it
C24_Witness ==
  /\ has_remote_producers(topo)
  /\ th[LoopThread].pc = "dispatch"
  /\ mq.local.buf[th[LoopThread].slot].src = 2
  /\ mq.remote = <<>>
  /\ ~mq.has_remote

\* ------------------------------------------------------------------------
\* C25: when waiting_ is true
\* ------------------------------------------------------------------------

\* thread t executes the end of push_remote_event in this step: it stores
\* has_remote_ and loads waiting_
ReadsWaiting(t) == th[t].pc = "flag" /\ th'[t].pc # "flag"

\* C25 as stated: a producer in push_remote reads waiting_ as true only
\* while the loop thread is blocked in cv_.wait.
C25_WaitingOnlyWhileBlocked ==
  [][\A t \in Threads :
       (ReadsWaiting(t) /\ mq.waiting) => th[LoopThread].pc = "parked"]_vars

\* C25: waiting_ is true exactly while the loop thread is inside the wait
\* block of wait_pop_any: blocked in cv_.wait, or holding the mutex between
\* the store of waiting_ and the wait, or between the return of the wait and
\* the clearing store.  A producer can read it as true in those windows; its
\* notify then reaches no blocked thread and changes nothing.  Outside the
\* wait block (polling, dispatching, idle) waiting_ is never true.
C25_WaitingOnlyInWaitBlock ==
  /\ [](mq.waiting <=> th[LoopThread].pc \in {"parked", "woken"})
  /\ [](th[LoopThread].pc = "woken" <=> mq.locked)
  /\ [][\A t \in Threads :
          (ReadsWaiting(t) /\ mq.waiting /\ th[LoopThread].pc # "parked")
            => mq'.notified = mq.notified]_vars

\* a producer is about to load waiting_ while the loop thread holds the
\* mutex with waiting_ set and is not blocked
C25_Witness ==
  /\ mq.waiting
  /\ th[LoopThread].pc = "woken"
  /\ PushInProgress
  /\ running

\* ------------------------------------------------------------------------
\* C26: RingBuffer::push on a full and on a non-full ring
\* ------------------------------------------------------------------------

\* a step that is one call of RingBuffer::push
IsRingPush == rb'.n = rb.n + 1 /\ rb'.op = "push"

\* C26: push on a ring holding Capacity elements returns false and leaves
\* head, tail and every slot as they were; push on a ring holding fewer
\* returns true, stores the value in slot tail mod Capacity, touches no
\* other slot, and advances tail by one
C26_PushFullOrStore ==
  [][IsRingPush =>
       IF rb.q.tail - rb.q.head = Capacity
         THEN /\ rb'.ret = "false"
              /\ rb'.q = rb.q
         ELSE /\ rb'.ret = "true"
              /\ rb'.q.tail = rb.q.tail + 1
              /\ rb'.q.head = rb.q.head
              /\ rb'.q.buf =
                   [rb.q.buf EXCEPT ![rb.q.tail % Capacity] = RingValue(rb'.n)]]_vars

\* a push has been rejected by a full ring whose indices have wrapped
C26_Witness ==
  /\ rb.op = "push"
  /\ rb.ret = "false"
  /\ rb.q.tail - rb.q.head = Capacity
  /\ rb.q.head > 0

\* ------------------------------------------------------------------------
\* C27: RingBuffer indices, occupied slots and FIFO order
\* ------------------------------------------------------------------------

\* RingBuffer::size()
ring_size(q) == q.tail - q.head

\* RingBuffer::empty()
ring_empty(q) == q.head = q.tail

\* the values stored at indices head .. tail-1 taken mod Capacity, in order
RingContents(q) ==
  [k \in 1..(q.tail - q.head) |-> q.buf[(q.head + k - 1) % Capacity]]

\* C27: after any sequence of push, alloc_slot / commit_push and try_pop,
\* 0 <= tail - head <= Capacity, size() is the number of stored elements,
\* empty() holds exactly when nothing is stored, the slots head .. tail-1
\* mod Capacity hold the pushed values not yet popped, and try_pop has
\* returned the values in the order they were pushed
C27_RingIndicesAndOrder ==
  /\ 0 <= rb.q.tail - rb.q.head
  /\ rb.q.tail - rb.q.head <= Capacity
  /\ ring_size(rb.q) = Len(rb.pushed) - Len(rb.popped)
  /\ ring_empty(rb.q) <=> Len(rb.pushed) = Len(rb.popped)
  /\ rb.popped \o RingContents(rb.q) = rb.pushed

\* try_pop has returned a value from a slot that was reused after the
\* indices passed Capacity
C27_Witness ==
  /\ rb.q.head > Capacity
  /\ rb.op = "try_pop"
  /\ rb.ret = "value"
  /\ Len(rb.popped) > Capacity

\* ------------------------------------------------------------------------
\* C28: the SPSC inbox under one producer and one consumer thread
\* ------------------------------------------------------------------------

\* the receiver of TopoExternal whose worker thread consumes the inbox
SpscConsumer == 1

\* the external emitter of TopoExternal, the only thread that pushes
SpscProducer == 2

\* the envelopes stored at indices head .. tail-1 of an inbox, in order
InboxContents(q) ==
  [k \in 1..(q.tail - q.head) |-> q.buf[(q.head + k - 1) % Capacity]]

\* everything pushed so far: what the consumer has handled, then what is
\* still queued
SpscStream == received[SpscConsumer] \o InboxContents(inbox[SpscConsumer])

\* the step is taken by thread t and by no other thread of the queue
SteppedOnlyBy(t, other) == th'[t] # th[t] /\ th'[other] = th[other]

SpscIndexOwners ==
  /\ inbox'[SpscConsumer].head # inbox[SpscConsumer].head
       => SteppedOnlyBy(SpscConsumer, SpscProducer)
  /\ inbox'[SpscConsumer].tail # inbox[SpscConsumer].tail
       => SteppedOnlyBy(SpscProducer, SpscConsumer)

\* a push that loads a full queue returns at once and writes nothing
SpscFullRejects ==
  (/\ th[SpscProducer].pc = "push"
   /\ th'[SpscProducer] # th[SpscProducer]
   /\ inbox[SpscConsumer].tail - inbox[SpscConsumer].head = Capacity)
    => /\ th'[SpscProducer].pc # "store"
       /\ inbox' = inbox

\* the stream grows only by the envelope a push stores, at its end; a pop
\* moves the oldest queued envelope to the consumer and changes nothing else
SpscStreamGrows ==
  \/ SpscStream' = SpscStream
  \/ /\ th[SpscProducer].pc = "store"
     /\ SpscStream' = Append(SpscStream, th[SpscProducer].em)

\* C28: with one producer thread and one consumer thread running
\* concurrently, head is written only by the consumer and tail only by the
\* producer, 0 <= tail - head <= Capacity in every reachable state, a push
\* on a full queue is rejected without touching a slot, and the consumer
\* handles exactly the stored envelopes, each once, in push order
C28_SpscOneProducerOneConsumer ==
  /\ [](/\ ~ub
        /\ 0 <= inbox[SpscConsumer].tail - inbox[SpscConsumer].head
        /\ inbox[SpscConsumer].tail - inbox[SpscConsumer].head <= Capacity)
  /\ [][SpscIndexOwners /\ SpscFullRejects /\ SpscStreamGrows]_vars

\* the producer is between the load and the store of a push while the
\* consumer is handling an envelope it popped, after the queue has been full
C28_Witness ==
  /\ th[SpscProducer].pc = "store"
  /\ th[SpscConsumer].pc = "handler"
  /\ filled
  /\ inbox[SpscConsumer].head > 0

\* ------------------------------------------------------------------------
\* C29: pop_spin and stop()
\* ------------------------------------------------------------------------

\* worker w is inside pop_spin on an empty inbox that has been stopped
SpinningStopped(w) ==
  /\ IsOwn(w)
  /\ th[w].pc = "spin"
  /\ inbox[w].stop
  /\ inbox[w].head = inbox[w].tail

\* the step of worker w out of pop_spin on a stopped empty inbox returns
\* nullptr: nothing is popped and no on_event is entered
SpinReturnsNull(w) ==
  (SpinningStopped(w) /\ th'[w] # th[w])
    => /\ th'[w].pc = "top"
       /\ inbox'[w] = inbox[w]
       /\ received'[w] = received[w]

\* a push that finds room in a stopped inbox stores its envelope
PushAfterStopAccepted(t) ==
  LET r == Head(th[t].targets) IN
  /\ (/\ th[t].pc = "push"
      /\ th'[t] # th[t]
      /\ inbox[r].stop
      /\ inbox[r].tail - inbox[r].head < Capacity
      /\ inbox[r].tail - inbox[r].head >= 0)
       => IF qkind[r] = "SPSCQueue"
            THEN th'[t].pc = "store"
            ELSE /\ inbox'[r].tail = inbox[r].tail + 1
                 /\ inbox'[r].buf[inbox[r].tail % Capacity] = th[t].em
  /\ (/\ th[t].pc = "store"
      /\ th'[t] # th[t])
       => /\ inbox'[r].tail = th[t].rtail + 1
          /\ inbox'[r].buf[th[t].rtail % Capacity] = th[t].em

\* C29: pop_spin on an empty inbox, SPSC or MPSC, returns nullptr once the
\* inbox is stopped, whether stop() came before pop_spin was entered or
\* while it was spinning, and it does not spin forever; a second stop()
\* changes nothing, and a push after stop() is stored like any other
C29_PopSpinStops ==
  /\ [](\A w \in Items : queue_stop(queue_stop(inbox[w])) = queue_stop(inbox[w]))
  /\ [][/\ \A w \in Items : SpinReturnsNull(w)
        /\ \A t \in Threads : PushAfterStopAccepted(t)]_vars
  /\ \A w \in 1..MaxTopoItems :
       (w \in Items /\ SpinningStopped(w)) ~> (w \in Items /\ th[w].pc # "spin")

\* a worker that was restarted entered pop_spin on an inbox stopped before
\* the call, while a push into that inbox is under way
C29_Witness ==
  \E w \in Items :
    /\ SpinningStopped(w)
    /\ wrun[w]
    /\ \E t \in Threads : th[t].pc \in {"push", "store"} /\ Head(th[t].targets) = w

\* ------------------------------------------------------------------------
\* C30: has_data_ of the MPSC inbox
\* ------------------------------------------------------------------------

IsMpsc(w) == w \in Items /\ qkind[w] = "ThreadSafeRingBuffer"

\* thread t takes the step as a producer of inbox w
PushStepBy(t, w) ==
  /\ th[t].pc = "push"
  /\ Head(th[t].targets) = w
  /\ th'[t] # th[t]

\* has_data_ of inbox w is set only by a push and cleared only by the
\* consumer, in the step that leaves the queue empty
HasDataWriters(w) ==
  /\ (~inbox[w].has_data /\ inbox'[w].has_data)
       => \E t \in Threads : PushStepBy(t, w)
  /\ (inbox[w].has_data /\ ~inbox'[w].has_data)
       => /\ th'[w] # th[w]
          /\ inbox'[w].head = inbox'[w].tail

\* C30: between critical sections of the inbox mutex, has_data_ is true
\* exactly when head_ # tail_, so a consumer that reads has_data_ as false
\* and returns nullptr without locking leaves no completed push behind;
\* the flag is set by push and cleared by the consumer when it pops the
\* last envelope
C30_HasDataMirrorsQueue ==
  /\ [](\A w \in Items :
          IsMpsc(w) => (inbox[w].has_data <=> inbox[w].head # inbox[w].tail))
  /\ [][\A w \in Items : IsMpsc(w) => HasDataWriters(w)]_vars

\* an MPSC inbox that was full has been emptied by its consumer and the
\* flag is clear again
C30_Witness ==
  \E w \in Items :
    /\ IsMpsc(w)
    /\ filled
    /\ inbox[w].head = inbox[w].tail
    /\ inbox[w].head >= Capacity
    /\ ~inbox[w].has_data

\* ------------------------------------------------------------------------
\* C31: tag and payload of a TaggedEvent
\* ------------------------------------------------------------------------

\* position of the first log entry equal to x, 0 if there is none
FirstIn(log, x) ==
  IF \E k \in 1..Len(log) : log[k] = x
    THEN CHOOSE k \in 1..Len(log) : log[k] = x /\ \A m \in 1..(k - 1) : log[m] # x
    ELSE 0

\* store and assignment (not self-assignment) onto an envelope with a live
\* payload run its destructor, and before any construction in its storage
DestroysBeforeConstructing ==
  \A i \in EnvIds :
    (/\ env'.dst = i
     /\ env'.op \in {"store", "copy_assign", "move_assign"}
     /\ env'.src # i
     /\ env.obj[i].payload.alive)
      => /\ FirstIn(env'.log, <<"dtor", i>>) > 0
         /\ FirstIn(env'.log, <<"ctor", i>>) = 0
              \/ FirstIn(env'.log, <<"dtor", i>>) < FirstIn(env'.log, <<"ctor", i>>)

\* after a move, the source is uninitialized and the destination has the
\* tag and the payload the source had
MoveTransfers ==
  \A i \in EnvIds, j \in EnvIds :
    (/\ env'.dst = i
     /\ env'.src = j
     /\ i # j
     /\ env'.op \in {"move_construct", "move_assign"})
      => /\ env'.obj[j].tag = uninitialized_tag(env.n)
         /\ ~env'.obj[j].payload.alive
         /\ env'.obj[i].tag = env.obj[j].tag
         /\ env'.obj[i].payload = env.obj[j].payload

\* self-assignment changes no envelope and runs no constructor or destructor
SelfAssignKeeps ==
  (env'.op \in {"copy_assign", "move_assign"} /\ env'.dst = env'.src)
    => env'.obj = env.obj /\ env'.log = <<>>

\* C31: for every envelope, after any sequence of store, copy / move
\* construction, copy / move assignment and destruction, the tag is
\* uninitialized_tag exactly when no payload is alive (and otherwise it is
\* the index of the live payload's type); store and assignment destroy the
\* live payload first; a move leaves the source uninitialized and hands its
\* tag and payload to the destination; self-assignment changes nothing
C31_TagMatchesPayload ==
  /\ [](\A i \in EnvIds :
          /\ env.obj[i].exists
               => ((env.obj[i].tag = uninitialized_tag(env.n))
                     <=> ~env.obj[i].payload.alive)
          /\ env.obj[i].payload.alive
               => /\ env.obj[i].exists
                  /\ env.obj[i].tag = Wide(0, env.obj[i].payload.type))
  /\ [][DestroysBeforeConstructing /\ MoveTransfers /\ SelfAssignKeeps]_vars

\* a move assignment onto an envelope holding a payload has destroyed that
\* payload, taken over the source's, and left the source uninitialized
C31_Witness ==
  /\ env.op = "move_assign"
  /\ env.dst # env.src
  /\ env.log = <<<<"dtor", env.dst>>, <<"ctor", env.dst>>, <<"dtor", env.src>>>>
  /\ env.obj[env.dst].payload.alive
  /\ env.obj[env.src].tag = uninitialized_tag(env.n)

\* ------------------------------------------------------------------------
\* C33: width of the tag
\* ------------------------------------------------------------------------

\* the universe size is at least lo and at most hi
UniverseWithin(lo, hi) == ~wide_less(env.n, lo) /\ ~wide_less(hi, env.n)

\* the tag type has `bytes` bytes and the default-constructed envelope
\* reports `code` as its index()
TagIs(bytes, code) == env.bytes = bytes /\ env.obj[1].tag = code

\* C33: for N event types the tag has 1 byte when N <= 254, 2 bytes when
\* 255 <= N <= 65534 and 4 bytes when 65535 <= N <= 4294967294, and a
\* default-constructed envelope reports the maximum of that type (255,
\* 65535, 4294967295) as its index()
C33_TagWidth ==
  (env.bytes # 0 /\ env.op # "static_assert") =>
    /\ UniverseWithin(Wide(0, 0), Wide(0, 254)) => TagIs(1, Wide(0, 255))
    /\ UniverseWithin(Wide(0, 255), Wide(0, 65534)) => TagIs(2, Wide(0, 65535))
    /\ UniverseWithin(Wide(0, 65535), Wide(65535, 65534))
         => TagIs(4, Wide(65535, 65535))
    /\ UniverseWithin(Wide(0, 0), Wide(65535, 65534))

\* a universe of 255 event types got a 2-byte tag
C33_Witness ==
  /\ env.n = Wide(0, 255)
  /\ env.bytes = 2
  /\ env.obj[1].exists

\* ------------------------------------------------------------------------
\* C32: constructions and destructions of payloads balance
\* ------------------------------------------------------------------------

\* number of envelopes whose storage holds a live payload
LivePayloads == Cardinality({i \in LifeIds : env.obj[i].payload.alive})

\* C32: at every moment the payloads constructed and not yet destroyed are
\* the ones alive in some envelope, and once the queue and the caller's
\* envelope are destroyed every payload that was constructed has been
\* destroyed, whatever pushes (also rejected ones), pops and drains were
\* made and whatever was still queued
C32_LifecycleBalance ==
  /\ env.ctors - env.dtors = LivePayloads
  /\ env.kind = "destroyed" => (env.ctors = env.dtors /\ LivePayloads = 0)

\* a queue that rejected a push was destroyed with envelopes still queued
C32_Witness ==
  /\ env.kind = "destroyed"
  /\ env.rejected
  /\ env.leftover
  /\ env.ctors > Capacity
  /\ env.ctors = env.dtors

\* ------------------------------------------------------------------------
\* C34: the envelope being dispatched and reentrant emits
\* ------------------------------------------------------------------------

\* dispatch_event is fanning the popped slot out and at least one loop-hosted
\* receiver has not been served yet
FanoutPending ==
  /\ th[LoopThread].pc \in {"dispatch", "handler"}
  /\ th[LoopThread].slot # -1
  /\ th[LoopThread].rcvs # <<>>

\* C34: while dispatch_event fans a popped slot out to the loop-hosted
\* receivers of its event, no step (in particular no emit made by the
\* on_event of an earlier receiver) changes the envelope in that slot
C34_DispatchedSlotStable ==
  [][FanoutPending =>
       mq'.local.buf[th[LoopThread].slot] = mq.local.buf[th[LoopThread].slot]]_vars

\* ------------------------------------------------------------------------
\* C35: one pushing thread per SPSC inbox
\* ------------------------------------------------------------------------

\* thread t is inside SPSCQueue::push on the inbox of r: it has loaded the
\* indices and has not yet published its tail
InSpscPush(t, r) ==
  /\ th[t].pc = "store"
  /\ Head(th[t].targets) = r

\* C35: for every inbox selected as SPSCQueue, at most one thread at a time
\* executes push on it, whichever emit path the pushes come from
C35_SpscSinglePusher ==
  \A r \in Items :
    qkind[r] = "SPSCQueue" =>
      Cardinality({t \in Threads : InSpscPush(t, r)}) <= 1

\* ------------------------------------------------------------------------
\* C36: a completed push_remote is eventually popped
\* ------------------------------------------------------------------------

\* some push_remote_event has left its critical section and has not yet set
\* has_remote_
FlagPending == \E t \in Threads : th[t].pc = "flag"

\* has_remote_ is false with a non-empty shared FIFO only while a push is
\* still on its way to set it
FlagFollowsFifo == (mq.remote # <<>> /\ ~FlagPending) => mq.has_remote

\* the n-th emit of thread x was an event for the loop-hosted receiver and
\* its push_remote_event has returned
RemotePushed(x, n) ==
  /\ x \in Items
  /\ "A" \in get_emits_t(topo[x])
  /\ nextSeq[x] > n
  /\ ~(th[x].pc = "flag" /\ th[x].em.seq = n)

\* the n-th event of thread x has been handed out by try_pop and dispatched
Popped(x, n) ==
  \E i \in 1..Len(received[1]) :
     received[1][i].src = x /\ received[1][i].seq = n

\* C36: with the loop thread polling forever, every event whose push_remote
\* has completed is later returned by try_pop; has_remote_ is never left
\* false with a non-empty shared FIFO once the pushes in progress finish
C36_RemotePushEventuallyPopped ==
  /\ []FlagFollowsFifo
  /\ \A x \in 1..MaxTopoItems, n \in 0..(MaxEmits - 1) :
       RemotePushed(x, n) ~> Popped(x, n)

\* has_remote_ alone: never lost behind a non-empty shared FIFO
RemoteFlagNeverLost == []FlagFollowsFifo

\* delivery of completed remote pushes in runs where no ring ever filled
RemoteDeliveredUnlessFull ==
  \A x \in 1..MaxTopoItems, n \in 0..(MaxEmits - 1) :
    RemotePushed(x, n) ~> (Popped(x, n) \/ filled)

\* ------------------------------------------------------------------------
\* C37: at most one dispatch after the running flag was cleared
\* ------------------------------------------------------------------------

\* the flag of w is cleared before and after the step
RunningCleared(w) == IsOwn(w) /\ ~wrun[w] /\ ~wrun'[w]

\* the worker of w begins an on_event dispatch in the step
DispatchBegins(w) == th[w].pc = "spin" /\ th'[w].pc = "handler"

\* with the flag cleared the worker does not enter pop_spin: from the check
\* of running_ it leaves run_loop, and on_event returns to that check
NoFurtherPop(w) ==
  /\ th'[w].pc = "spin" => th[w].pc = "spin"
  /\ (th[w].pc = "top" /\ th'[w].pc # "top") => th'[w].pc = "exited"
  /\ (th[w].pc = "handler" /\ th'[w].pc # "handler") => th'[w].pc = "top"

\* the pop_spin call in progress hands out the queued envelope although
\* stop_ is set
PopReturnsQueued(w) ==
  (th[w].pc = "spin" /\ inbox[w].stop /\ inbox[w].head # inbox[w].tail /\ th'[w] # th[w])
    => DispatchBegins(w) \/ ub'

\* C37: once stop() has cleared running_ of a thread-hosted receiver, its
\* worker begins at most one more on_event dispatch before it leaves
\* run_loop: a dispatch begins only in the pop_spin call that was in progress
\* when the flag was cleared (which still returns a queued envelope), and
\* after it the worker goes through the check of running_ and exits
C37_OneDispatchAfterStop ==
  [][\A w \in Items :
       RunningCleared(w) => NoFurtherPop(w) /\ PopReturnsQueued(w)]_vars

\* a worker inside on_event with its flag cleared and its inbox stopped,
\* while another envelope is still queued behind the one it dispatches
C37_Witness ==
  \E w \in Items :
     /\ IsOwn(w) /\ ~wrun[w] /\ th[w].pc = "handler"
     /\ inbox[w].stop
     /\ inbox[w].head # inbox[w].tail

\* ------------------------------------------------------------------------
\* C38: restarting a loop
\* ------------------------------------------------------------------------

\* start() has returned after an earlier stop(): the mailbox still carries
\* the stop flag of that stop
Restarted == mq.stop /\ starts > 0 /\ stopper.pc = "idle"

\* start() has returned and stop() was never called
FirstRun == ~mq.stop /\ starts > 0

\* every receiver of A has been handed at least k events
DeliveredUpTo(k) == \A r \in Items : Len(received[r]) >= k

\* the k-th event has reached every receiver, or the loop was stopped, or a
\* ring was found full
DeliveredOrStopped(k) == DeliveredUpTo(k) \/ ~running \/ filled

\* the stop flags of the mailbox and of the inboxes are never cleared
StopFlagsStay ==
  /\ mq.stop => mq'.stop
  /\ \A i \in Items : inbox[i].stop => inbox'[i].stop

\* C38: after stop() followed by start() the loop is running again, every
\* thread-hosted receiver has exactly one live worker inside run_loop, the
\* stop flags of the mailbox and the inboxes are never cleared, and completed
\* emits are delivered to the loop-hosted and the thread-hosted receiver
\* under the same conditions as before the first stop
C38_Restart ==
  /\ [](Restarted =>
          /\ running /\ ~ub
          /\ \A i \in Items :
                IsOwn(i) => /\ wrun[i] /\ nthreads[i] = 1
                            /\ th[i].pc \notin {"none", "exited"})
  /\ [][StopFlagsStay]_vars
  /\ \A k \in 1..MaxEmits :
       /\ (FirstRun /\ emitted["A"] >= k) ~> DeliveredOrStopped(k)
       /\ (Restarted /\ emitted["A"] >= k) ~> DeliveredOrStopped(k)

\* a loop whose worker ran and was stopped (its inbox carries the stop
\* flag), restarted, and whose two receivers were each handed the one event
\* emitted
C38_Witness ==
  /\ Restarted /\ running
  /\ \A i \in Items : IsOwn(i) => inbox[i].stop
  /\ nextSeq[LoopThread] = 1
  /\ DeliveredUpTo(1)

\* ------------------------------------------------------------------------
\* C39: the element returned by an SPSC pop is the consumer's own copy
\* ------------------------------------------------------------------------

\* the element the last pop of inbox w returned
LastPopped(w) == received[w][Len(received[w])]

\* the ring slot the last pop of inbox w moved its element out of
PoppedSlot(w) == (inbox[w].head - 1) % Capacity

\* current_ of inbox w changes only in a pop by its worker
CurrentSetByPopOnly(w) ==
  inbox'[w].current # inbox[w].current
    => th[w].pc = "spin" /\ inbox'[w].head = inbox[w].head + 1

\* C39: the element returned by pop_spin of an SPSC inbox is held in
\* current_: it is the popped element from the pop on, whatever the producer
\* pushes meanwhile, also into the slot just freed, and only the consumer's
\* next pop changes it
C39_PoppedCopyStable ==
  /\ [](\A w \in Items :
          (IsOwn(w) /\ qkind[w] = "SPSCQueue" /\ received[w] # <<>> /\ ~ub)
            => inbox[w].current = LastPopped(w))
  /\ [][\A w \in Items : CurrentSetByPopOnly(w)]_vars

\* on_event is running on the popped element while the producer has
\* already stored another event into the slot it was popped from
C39_Witness ==
  \E w \in Items :
     /\ IsOwn(w) /\ qkind[w] = "SPSCQueue" /\ th[w].pc = "handler"
     /\ inbox[w].current = LastPopped(w)
     /\ inbox[w].buf[PoppedSlot(w)] \notin {NoEvent, inbox[w].current}

====
